---- MODULE Spec2Model ----
(***************************************************************************)
(* Smart discovery crawler for Bluesky Swahili content (src/src/crawler.ts) *)
(*                                                                         *)
(* The module models the persisted discovery cache, the network crawler    *)
(* (crawlForNewProfiles), the weighted sampler (weightedRandomSelect) and  *)
(* the discovery orchestrator (smartDiscoverSwahiliPosts) as one state     *)
(* machine.  The network client and the language classifier are external:  *)
(* their answers are drawn from small fixed tables.  Math.random() is a    *)
(* value in hundredths (0..99) drawn from small sets.                      *)
(*                                                                         *)
(* Units: weights of the sampler are integers in thousandths, classifier   *)
(* probabilities are in hundredths, time is in days.                       *)
(***************************************************************************)
EXTENDS Integers, Sequences, FiniteSets, TLC

(***************************************************************************)
(* Bounds of the model                                                     *)
(***************************************************************************)

\* number of discovery calls issued one after the other
MaxCalls == 1

\* number of direct crawl invocations in the crawl-history specification
MaxCrawls == 60

\* largest cap handed to a crawl in the crawl specification
MaxCap == 2

\* largest number of candidates handed to the sampler in its specification
MaxItems == 3

(***************************************************************************)
(* Program constants                                                       *)
(***************************************************************************)

\* crawler.ts:448  cacheSize < 15 forces full exploration
FullExploreBelow == 15

\* crawler.ts:449  cacheSize < 50 enables mini exploration
MiniExploreBelow == 50

\* crawler.ts:465  Math.min(5, seeds.length)
MaxFullCrawls == 5

\* crawler.ts:471  cap of one crawl in full exploration
FullCrawlCap == 25

\* crawler.ts:494  cap of the crawl in mini exploration
MiniCrawlCap == 10

\* crawler.ts:456  .slice(0, 30) of the shuffled cached handles
SeedSample == 30

\* crawler.ts:523  Math.min(20, profileList.length)
MaxSelected == 20

\* crawler.ts:410  crawlHistory.length > 50
HistoryTrimAbove == 50

\* crawler.ts:411  crawlHistory.slice(-25)
HistoryKeep == 25

\* crawler.ts:548  record.text.slice(0, 100)
TextHashLen == 100

\* crawler.ts:106  text.trim().length < 10
MinTextLen == 10

\* crawler.ts:113  swahiliResult.prob >= 0.9, in hundredths
SwahiliThreshold == 90

\* crawler.ts:554  7 * 24 * 60 * 60 * 1000 ms, in days
FreshDays == 7

\* crawler.ts:430  limit = 50
DefaultLimit == 50

\* crawler.ts:432  explorationRate = 0.4, in hundredths
DefaultExplorationRate == 40

\* crawler.ts:323 and 606  .slice(0, 3) of the shuffled hashtags
TagsPerSearch == 3

(***************************************************************************)
(* Small helpers                                                           *)
(***************************************************************************)

Min(a, b) == IF a <= b THEN a ELSE b

Max(a, b) == IF a >= b THEN a ELSE b

SetMin(S) == CHOOSE x \in S : \A y \in S : x <= y

Range(s) == {s[k] : k \in 1..Len(s)}

\* Array.prototype.slice(0, n)
SliceTo(s, n) == SubSeq(s, 1, Min(n, Len(s)))

\* Array.prototype.slice(-n)
SliceLast(s, n) == SubSeq(s, Max(1, Len(s) - n + 1), Len(s))

\* a text made of n copies of one character
Rep(c, n) == [k \in 1..n |-> c]

\* the elements of a set of positive integers up to n in ascending order
SortedSeq(S, n) == SelectSeq([k \in 1..n |-> k], LAMBDA x : x \in S)

\* [...new Set(array)]: drops repeated elements, keeps first occurrences
RECURSIVE Dedupe(_)
Dedupe(s) ==
  IF s = <<>> THEN <<>>
  ELSE LET r == Dedupe(SubSeq(s, 1, Len(s) - 1))
       IN  IF s[Len(s)] \in Range(r) THEN r ELSE Append(r, s[Len(s)])

(***************************************************************************)
(* The outside world: accounts, texts, posts, classifier, network answers  *)
(***************************************************************************)

\* the largest did of the modelled network: the accounts of a pre-populated
\* blob are 1..n, account 61 is in no initial blob
MaxDid == 61

\* the handle of an account (distinct from its did)
HandleOf(d) == d + 1000

\* crawler.ts:89  the bootstrap seed handles, in the order of the source:
\* changetanzania.bsky.social, tanzania.bsky.social, kenya.bsky.social
SeedHandles == <<1, 2, 3>>

\* "Habari #Kenya #kenya leo" : Swahili, the same hashtag twice
TxtKenya ==
  <<"H","a","b","a","r","i"," ","#","K","e","n","y","a"," ","#","k","e","n","y","a"," ","l","e","o">>

\* two long texts that agree on their first 100 characters
TxtLongX == Rep("a", TextHashLen) \o <<"x">>

TxtLongY == Rep("a", TextHashLen) \o <<"y">>

\* " jambo      " : 12 characters, 5 after trimming
TxtShort == <<" ","j","a","m","b","o"," "," "," "," "," "," ">>

\* "hello world!" : not Swahili
TxtEnglish == <<"h","e","l","l","o"," ","w","o","r","l","d","!">>

\* "asante sana #habari" : Swahili below the threshold
TxtWeak ==
  <<"a","s","a","n","t","e"," ","s","a","n","a"," ","#","h","a","b","a","r","i">>

\* langdetect.detect(text): the list of {lang, prob} it reports (prob in
\* hundredths); the classifier is a black box, fixed per text
Detect(text) ==
  CASE text = TxtKenya   -> <<[lang |-> "sw", prob |-> 95]>>
    [] text = TxtLongX   -> <<[lang |-> "id", prob |-> 5], [lang |-> "sw", prob |-> 90]>>
    [] text = TxtLongY   -> <<[lang |-> "sw", prob |-> 99]>>
    [] text = TxtShort   -> <<[lang |-> "sw", prob |-> 99]>>
    [] text = TxtWeak    -> <<[lang |-> "sw", prob |-> 89], [lang |-> "so", prob |-> 11]>>
    [] OTHER             -> <<[lang |-> "en", prob |-> 99]>>

\* "!!!!!!!!!!!!" : langdetect.detect throws on a text without features
TxtOdd == Rep("!", 12)

\* langdetect.detect(text) throws
DetectThrows(text) == text = TxtOdd

\* posts of the network; a count that the post does not carry is absent
PostA ==
  [uri |-> "at://a", text |-> TxtKenya, createdAt |-> 10, author |-> 61,
   likeCount |-> 10, repostCount |-> 2, replyCount |-> 1]

PostB ==
  [uri |-> "at://b", text |-> TxtLongX, createdAt |-> 9, author |-> 61,
   likeCount |-> 1]

PostC ==
  [uri |-> "at://c", text |-> TxtLongY, createdAt |-> 1, author |-> 1,
   likeCount |-> 0, repostCount |-> 0, replyCount |-> 2]

PostD ==
  [uri |-> "at://d", text |-> TxtEnglish, createdAt |-> 10, author |-> 1,
   likeCount |-> 50, repostCount |-> 0, replyCount |-> 0]

PostE ==
  [uri |-> "at://e", text |-> TxtShort, createdAt |-> 10, author |-> 61,
   likeCount |-> 3, repostCount |-> 0, replyCount |-> 0]

PostF ==
  [uri |-> "at://f", text |-> TxtWeak, createdAt |-> 10, author |-> 61,
   likeCount |-> 0, repostCount |-> 0, replyCount |-> 0]

PostH ==
  [uri |-> "at://h", text |-> TxtOdd, createdAt |-> 10, author |-> 1]

\* a second post of account 1 with the text of PostA (a quote of it)
PostG ==
  [uri |-> "at://g", text |-> TxtKenya, createdAt |-> 10, author |-> 1,
   likeCount |-> 0, repostCount |-> 1, replyCount |-> 0]

\* a network call that threw, and one that answered with data
Failed == [ok |-> FALSE, data |-> <<>>]

Ok(data) == [ok |-> TRUE, data |-> data]

\* agent.getAuthorFeed({actor}): the feeds the network may answer with.
\* A feed can carry posts of other authors (reposts).
FeedAnswers(did) ==
  CASE did = 61 -> {Failed, Ok(<<PostF, PostA, PostE, PostB>>)}
    [] did = 1  -> {Ok(<<PostD, PostH>>), Ok(<<PostC, PostA, PostG>>)}
    [] OTHER    -> {Ok(<<>>)}

\* agent.getFollowers({actor}).data.followers: dids of the followers
FollowerAnswers == {Failed, Ok(<<1, 61, 1>>)}

\* agent.getFollows({actor}).data.follows
FollowAnswers == {Failed, Ok(<<61, 1>>)}

\* agent.app.bsky.feed.searchPosts({q}).data.posts for the query of a
\* hashtag ("#" and the tag) or of a phrase: the searches that find posts
\* are those of #kiswahili, #kenya and "habari yako"
SearchAnswers(q) ==
  CASE q = <<"k","i","s","w","a","h","i","l","i">> -> {Failed, Ok(<<PostD, PostG, PostA, PostC>>)}
    [] q = <<"k","e","n","y","a">>                 -> {Ok(<<PostB, PostC>>)}
    [] q = <<"h","a","b","a","r","i"," ","y","a","k","o">> -> {Failed, Ok(<<PostC, PostB>>)}
    [] OTHER -> {Ok(<<>>)}

\* agent.getProfile({actor: startHandle}): the client of @atproto/api either
\* throws or resolves with a response that carries data ("nodata" would be a
\* response without data, which the client does not produce); only the first
\* seed handle and the handles of the direct caller resolve
ProfileAnswers(handle) ==
  IF handle = SeedHandles[1] \/ handle > 2000 THEN {"throws", "ok"} ELSE {"throws"}

(***************************************************************************)
(* Pure functions of crawler.ts                                            *)
(***************************************************************************)

\* String.prototype.trim(): strips the blanks at both ends
RECURSIVE TrimLeft(_)
TrimLeft(text) ==
  IF text # <<>> /\ text[1] = " " THEN TrimLeft(Tail(text)) ELSE text

RECURSIVE TrimRight(_)
TrimRight(text) ==
  IF text # <<>> /\ text[Len(text)] = " "
  THEN TrimRight(SubSeq(text, 1, Len(text) - 1)) ELSE text

Trim(text) == TrimRight(TrimLeft(text))

\* results.find(r => r.lang === "sw"): the first Swahili result, if any
SwahiliResults(results) == {k \in 1..Len(results) : results[k].lang = "sw"}

\* what langdetect.detect(text) does: it throws, or it returns its results
Classified(text) ==
  [throws |-> DetectThrows(text),
   results |-> IF DetectThrows(text) THEN <<>> ELSE Detect(text)]

\* !text || text.trim().length < 10: isSwahili returns before it calls the
\* classifier
ShortCircuit(text) == text = <<>> \/ Len(Trim(text)) < MinTextLen

\* isSwahili with the comparison prob > 0.9
isSwahiliAbove(text, answer) ==
  IF ShortCircuit(text) \/ answer.throws
  THEN [isSwahili |-> FALSE, confidence |-> 0]
  ELSE LET results == answer.results
           sw == SwahiliResults(results)
       IN  IF sw # {} /\ results[SetMin(sw)].prob > SwahiliThreshold
           THEN [isSwahili |-> TRUE, confidence |-> results[SetMin(sw)].prob]
           ELSE [isSwahili |-> FALSE, confidence |-> 0]

\* the body of isSwahili(text), answer being what langdetect.detect(text)
\* does when it is called
isSwahiliOf(text, answer) ==
  IF ShortCircuit(text) \/ answer.throws
  THEN [isSwahili |-> FALSE, confidence |-> 0]
  ELSE LET results == answer.results
           sw == SwahiliResults(results)
       IN  IF sw # {} /\ results[SetMin(sw)].prob >= SwahiliThreshold
           THEN [isSwahili |-> TRUE, confidence |-> results[SetMin(sw)].prob]
           ELSE [isSwahili |-> FALSE, confidence |-> 0]

\* isSwahili(text) -> {isSwahili, confidence}
isSwahili(text) == isSwahiliOf(text, Classified(text))

\* \w of the regular expression, over the characters the texts use
WordChars ==
  {"a","b","c","d","e","f","g","h","i","j","k","l","m","n","o","p","q","r","s","t","u","v","w","x","y","z",
   "H","K","_"}

\* String.prototype.toLowerCase() on one character
ToLower(c) == CASE c = "H" -> "h" [] c = "K" -> "k" [] OTHER -> c

\* length of the run of word characters of text that starts at position k
RECURSIVE WordRun(_, _)
WordRun(text, k) ==
  IF k <= Len(text) /\ text[k] \in WordChars THEN 1 + WordRun(text, k + 1) ELSE 0

\* tag.toLowerCase().replace("#", "") of a match that starts at position k
\* (the "#") and has n word characters
TagOf(text, k, n) == [m \in 1..n |-> ToLower(text[k + m])]

\* the positions of text where a match of /#[\w...]+/g starts: a "#" that a
\* word character follows (a match never holds a "#" past its first character)
MatchStarts(text) ==
  SelectSeq([k \in 1..Len(text) |-> k],
            LAMBDA k : text[k] = "#" /\ WordRun(text, k + 1) > 0)

\* extractHashtags(text): text.match(/#[\w...]+/g) || [] mapped to tags
extractHashtags(text) ==
  LET starts == MatchStarts(text)
  IN  [m \in 1..Len(starts) |-> TagOf(text, starts[m], WordRun(text, starts[m] + 1))]

\* post.likeCount || 0
CountOf(post, field) == IF field \in DOMAIN post THEN post[field] ELSE 0

\* a score that counts every interaction once
calculateEngagementFlat(post) ==
  CountOf(post, "likeCount") + CountOf(post, "repostCount") + CountOf(post, "replyCount")

\* calculateEngagement(post)
calculateEngagement(post) ==
  CountOf(post, "likeCount") + CountOf(post, "repostCount") * 2
    + CountOf(post, "replyCount") * 3

\* [a[i], a[j]] = [a[j], a[i]]
Swap(a, i, j) == [a EXCEPT ![i] = a[j], ![j] = a[i]]

\* the iterations of the loop of shuffle for the 0-based indices hi down
\* to lo; every Math.random() of the loop yields u hundredths.  The upper
\* half of the iterations is carried out before the lower half is begun.
RECURSIVE ShuffleSteps(_, _, _, _)
ShuffleSteps(a, hi, lo, u) ==
  IF hi < lo THEN a
  ELSE IF hi = lo THEN Swap(a, hi + 1, ((u * (hi + 1)) \div 100) + 1)
  ELSE CHOOSE r \in UNION
         {{ShuffleSteps(b, mid, lo, u) : b \in {ShuffleSteps(a, hi, mid + 1, u)}} :
            mid \in {(hi + lo) \div 2}} : TRUE

\* the loop of shuffle from the 0-based index i down to 1
ShuffleFrom(a, i, u) == ShuffleSteps(a, i, 1, u)

\* the draws of Math.random(), in hundredths, the model chooses from
RandomDraws == {0, 99}

\* shuffle(array)
shuffle(array, u) == ShuffleFrom(array, Len(array) - 1, u)

\* crawler.ts:304  the hashtags of the hashtag channel, as character sequences
swahiliHashtags ==
  <<<<"k","i","s","w","a","h","i","l","i">>,
    <<"s","w","a","h","i","l","i">>,
    <<"h","a","b","a","r","i">>,
    <<"t","a","n","z","a","n","i","a">>,
    <<"k","e","n","y","a">>,
    <<"u","g","a","n","d","a">>,
    <<"j","a","m","b","o">>,
    <<"k","a","r","i","b","u">>,
    <<"a","f","r","i","k","a">>,
    <<"m","a","s","h","a","r","i","k","i">>,
    <<"n","a","i","r","o","b","i">>,
    <<"d","a","r","e","s","s","a","l","a","a","m">>,
    <<"m","o","m","b","a","s","a">>,
    <<"s","w","a","h","i","l","i","p","o","s","t">>,
    <<"l","u","g","h","a">>>>

\* crawler.ts:367  the phrases of the phrase channel
swahiliPhrases ==
  <<<<"h","a","b","a","r","i"," ","y","a","k","o">>,
    <<"a","s","a","n","t","e"," ","s","a","n","a">>,
    <<"k","a","r","i","b","u"," ","s","a","n","a">>,
    <<"j","a","m","b","o">>,
    <<"m","a","m","b","o"," ","v","i","p","i">>>>

\* crawler.ts:604  the default hashtags of the shortfall backfill
defaultBackfillTags ==
  <<<<"k","i","s","w","a","h","i","l","i">>,
    <<"s","w","a","h","i","l","i">>,
    <<"h","a","b","a","r","i">>,
    <<"t","a","n","z","a","n","i","a">>,
    <<"k","e","n","y","a">>>>

\* the tag "kenya" a caller may filter on
TagKenya == <<"k","e","n","y","a">>

(***************************************************************************)
(* The weighted sampler                                                    *)
(***************************************************************************)

\* Math.random() * 0.5 in thousandths, for a draw of u hundredths
Jitter(u) == u * 5

\* remaining.reduce((sum, item) => sum + item.weight + Math.random() * 0.5, 0)
\* where u1[k] is the draw made for the k-th item
\* the sum is taken over the items lo..hi by halves, which adds up the same
\* terms
RECURSIVE WeightSum(_, _, _, _)
WeightSum(remaining, u1, lo, hi) ==
  IF lo > hi THEN 0
  ELSE IF lo = hi THEN remaining[lo].weight + Jitter(u1[lo])
  ELSE CHOOSE r \in
         {WeightSum(remaining, u1, lo, mid) + WeightSum(remaining, u1, mid + 1, hi) :
            mid \in {(lo + hi) \div 2}} : TRUE

TotalWeight(remaining, u1, k) == WeightSum(remaining, u1, 1, k)

\* the inner loop of weightedRandomSelect from the item j on: random = Math.random() * totalWeight
\* with a draw of ur hundredths, then random -= weight + jitter per item
\* until random <= 0.  The result is the 1-based index that is selected, or
\* 0 when the loop ends without random <= 0.
\* The loop is run over the items lo..hi by halves: the second half is run
\* with what the first half left of random, and only when the first half
\* selected nothing.
RECURSIVE FirstHitIn(_, _, _, _, _)
FirstHitIn(remaining, u2, random, lo, hi) ==
  IF lo > hi THEN [hit |-> 0, random |-> random]
  ELSE IF lo = hi
    THEN CHOOSE r \in
           {[hit |-> IF left <= 0 THEN lo ELSE 0, random |-> left] :
              left \in {random - 100 * (remaining[lo].weight + Jitter(u2[lo]))}} : TRUE
  ELSE CHOOSE r \in UNION
         {{IF first.hit # 0 THEN first
           ELSE FirstHitIn(remaining, u2, first.random, mid + 1, hi) :
             first \in {FirstHitIn(remaining, u2, random, lo, mid)}} :
            mid \in {(lo + hi) \div 2}} : TRUE

FirstHit(remaining, u2, random, j) ==
  FirstHitIn(remaining, u2, random, j, Len(remaining)).hit

\* random is kept times 100, as ur is in hundredths
SelectIndex(remaining, ur, u1, u2) ==
  CHOOSE r \in
    {FirstHit(remaining, u2, random, 1) :
       random \in {ur * TotalWeight(remaining, u1, Len(remaining))}} : TRUE

\* remaining.splice(j, 1)
Splice(s, j) == SubSeq(s, 1, j - 1) \o SubSeq(s, j + 1, Len(s))

\* one iteration of the outer loop of weightedRandomSelect on the state
\* [remaining, selected, i]
SelectStep(st, ur, u1, u2) ==
  CHOOSE r \in
    {IF j = 0
     THEN [st EXCEPT !.i = st.i + 1]
     ELSE [remaining |-> Splice(st.remaining, j),
           selected  |-> Append(st.selected, st.remaining[j]),
           i         |-> st.i + 1] :
       j \in {SelectIndex(st.remaining, ur, u1, u2)}} : TRUE

\* n passes of the outer loop from the state st, a pass being skipped once
\* the loop condition fails; the first half of the passes is carried out
\* before the second is begun
RECURSIVE SelectPasses(_, _, _, _, _, _)
SelectPasses(st, n, count, ur, u1, u2) ==
  IF n = 0 \/ ~(st.i < count /\ Len(st.remaining) > 0) THEN st
  ELSE IF n = 1
    THEN SelectStep(st, ur, [k \in 1..Len(st.remaining) |-> u1],
                    [k \in 1..Len(st.remaining) |-> u2])
  ELSE CHOOSE r \in UNION
         {{SelectPasses(next, n - half, count, ur, u1, u2) :
             next \in {SelectPasses(st, half, count, ur, u1, u2)}} :
            half \in {n \div 2}} : TRUE

\* the outer loop, every draw of one iteration being ur, u1 or u2 hundredths
SelectLoop(st, count, ur, u1, u2) ==
  SelectPasses(st, Max(count - st.i, 0), count, ur, u1, u2).selected

\* weightedRandomSelect(items, count) under the draws rnd = [ur, u1, u2]
weightedRandomSelect(items, count, rnd) ==
  IF Len(items) <= count THEN items
  ELSE SelectLoop([remaining |-> items, selected |-> <<>>, i |-> 0],
                  count, rnd.ur, rnd.u1, rnd.u2)

\* the draws compared with explorationRate
ExploreDraws == {39, 40}

\* the draws of one run of the sampler inside a discovery call
SamplerDraws ==
  {[ur |-> 0, u1 |-> 0, u2 |-> 0], [ur |-> 99, u1 |-> 0, u2 |-> 99],
   [ur |-> 99, u1 |-> 99, u2 |-> 0]}

(***************************************************************************)
(* The cache store                                                         *)
(***************************************************************************)

\* a CachedProfile (displayName is carried along unread and left out)
CachedProfile(did, at, count, engagement, from, tags) ==
  [did |-> did, handle |-> HandleOf(did), discoveredAt |-> at, lastSeen |-> at,
   swahiliPostCount |-> count, engagementScore |-> engagement,
   discoveredFrom |-> from, tags |-> tags]

\* the profiles object without entries
NoProfiles == [d \in {} |-> 0]

\* the default cache of loadCache
DefaultCache(t) ==
  [version |-> "2.0", lastUpdated |-> t, totalDiscoveries |-> 0,
   profiles |-> NoProfiles, seedProfiles |-> SeedHandles, crawlHistory |-> <<>>]

\* a cache that earlier calls filled with the accounts 1..n
Prepopulated(n) ==
  [version |-> "2.0", lastUpdated |-> 1, totalDiscoveries |-> n,
   profiles |-> [d \in 1..n |->
                   CachedProfile(d, 1, 1, 1, <<"follower_of", SeedHandles[1]>>, <<>>)],
   seedProfiles |-> SeedHandles, crawlHistory |-> <<SeedHandles[1]>>]

\* sizes of the pre-populated blobs the model starts from
InitSizes == {15, 50}

\* the members of a DiscoveryCache in the order its objects are built with
CacheKeys ==
  <<"version", "lastUpdated", "totalDiscoveries", "profiles", "seedProfiles",
    "crawlHistory">>

\* JSON.stringify(cache, null, 2): the text lists the members the object
\* has, each as a key and a value (nested values are written the same way
\* and are kept as they are); closed tells that the text runs up to its
\* closing brace
JSONstringify(c) ==
  LET keys == SelectSeq(CacheKeys, LAMBDA key : key \in DOMAIN c)
  IN  [closed |-> TRUE, members |-> [i \in 1..Len(keys) |-> <<keys[i], c[keys[i]]>>]]

\* a text that ends before anything was written to it
EmptyText == [closed |-> FALSE, members |-> <<>>]

\* JSON.parse(data) throws on a text that is not closed
Parses(text) == text.closed

\* JSON.parse(data) of a text that parses: the object with the members listed
JSONparse(text) ==
  LET m == text.members
  IN  [key \in {m[i][1] : i \in 1..Len(m)} |->
         m[CHOOSE i \in 1..Len(m) : m[i][1] = key][2]]

\* the persisted blob: absent, or a file with a text
NoFile == [exists |-> FALSE, text |-> EmptyText]

File(c) == [exists |-> TRUE, text |-> JSONstringify(c)]

\* a file that was opened for writing and received nothing
Truncated == [exists |-> TRUE, text |-> EmptyText]

\* fs.existsSync(CACHE_FILE) and JSON.parse succeeds on its content
Readable(d) == d.exists /\ Parses(d.text)

\* the object a readable file holds
Blob(d) == JSONparse(d.text)

\* a migration that starts both lists afresh
MigrateReset(c) ==
  IF "version" \in DOMAIN c THEN c
  ELSE [key \in DOMAIN c \cup {"version", "seedProfiles", "crawlHistory"} |->
          CASE key = "version" -> "2.0"
            [] key \in {"seedProfiles", "crawlHistory"} -> <<>>
            [] OTHER -> c[key]]

\* "Migrate old cache if needed": a cache without version gets one, and
\* seedProfiles and crawlHistory when it lacks them
Migrate(c) ==
  IF "version" \in DOMAIN c THEN c
  ELSE [key \in DOMAIN c \cup {"version", "seedProfiles", "crawlHistory"} |->
          CASE key = "version" -> "2.0"
            [] key \in {"seedProfiles", "crawlHistory"} /\ key \notin DOMAIN c -> <<>>
            [] OTHER -> c[key]]

\* loadCache that takes whatever an existing file holds
loadCacheUnguarded(d, t) == IF d.exists THEN Migrate(Blob(d)) ELSE DefaultCache(t)

\* loadCache() at time t
loadCache(d, t) == IF Readable(d) THEN Migrate(Blob(d)) ELSE DefaultCache(t)

\* saveCache(cache) at time t: the blob written when the write succeeds
saveCache(c, t) == File([c EXCEPT !.lastUpdated = t])

\* fs.writeFileSync(CACHE_FILE, ...) of saveCache on the file d: the file is
\* written; or opening it fails and it stays as it was; or it is opened,
\* which empties it, and the write fails
writeFileSync(d, written) == {written, d, Truncated}

\* fs.unlinkSync(CACHE_FILE) of clearCache when the file exists: it is
\* removed, or the removal fails and the error is logged
clearCache(d) == IF d.exists THEN {NoFile, d} ELSE {d}

\* Object.keys(cache.profiles)
Keys(c) == DOMAIN c.profiles

\* Object.values(cache.profiles); the order of the entries is immaterial
\* to the callers, which shuffle the list, and is taken ascending by key
Values(c) ==
  LET keys == SortedSeq(Keys(c), MaxDid)
  IN  [k \in 1..Len(keys) |-> c.profiles[keys[k]]]

\* a push that evicts the oldest entry as soon as the log holds more than
\* HistoryKeep
UpdateCrawlHistoryEvict(history, startHandle) ==
  LET pushed == Append(history, startHandle)
  IN  IF Len(pushed) > HistoryKeep THEN SliceLast(pushed, HistoryKeep) ELSE pushed

\* cache.crawlHistory.push(startHandle) and the trim that follows it
UpdateCrawlHistory(history, startHandle) ==
  LET pushed == Append(history, startHandle)
  IN  IF Len(pushed) > HistoryTrimAbove THEN SliceLast(pushed, HistoryKeep) ELSE pushed

\* the assignment that files the profile under its handle
PutProfileByHandle(c, key, profile) ==
  [c EXCEPT !.profiles = [d \in DOMAIN c.profiles \cup {profile.handle} |->
                            IF d = profile.handle THEN profile ELSE c.profiles[d]]]

\* cache.profiles[key] = profile
PutProfile(c, key, profile) ==
  [c EXCEPT !.profiles = [d \in Keys(c) \cup {key} |->
                            IF d = key THEN profile ELSE c.profiles[d]]]

\* the merge loop of the orchestrator over the candidates of one crawl, on
\* the state st = [cache, newProfilesDiscovered]:
\*   if (!cache.profiles[profile.did]) { cache.profiles[profile.did] = profile;
\*     newProfilesDiscovered++; cache.totalDiscoveries++; }
RECURSIVE MergeProfiles(_, _, _)
MergeProfiles(st, newProfiles, k) ==
  IF k > Len(newProfiles) THEN st
  ELSE LET profile == newProfiles[k]
       IN  IF profile.did \notin Keys(st.cache)
           THEN MergeProfiles(
                  [cache |-> [PutProfile(st.cache, profile.did, profile)
                                EXCEPT !.totalDiscoveries = @ + 1],
                   newProfilesDiscovered |-> st.newProfilesDiscovered + 1],
                  newProfiles, k + 1)
           ELSE MergeProfiles(st, newProfiles, k + 1)

(***************************************************************************)
(* State                                                                   *)
(***************************************************************************)

VARIABLES
  disk,      \* the persisted blob at CACHE_FILE
  now,       \* the current time, in days
  calls,     \* discovery calls started so far
  crawls,    \* crawlForNewProfiles invocations: of the running discovery
             \* call, or of the direct caller in the crawl specification
  pc,        \* position of the single thread of control
  opts,      \* the SmartDiscoveryOptions of the running call
  cache,     \* the in-memory DiscoveryCache of the running call
  posts,     \* the accepted posts of the running call
  seenUris,  \* seenUris of the running call
  seenTexts, \* seenTexts of the running call
  newProfilesDiscovered,
  ex,        \* locals of the mode decision and of the exploration loop
  cr,        \* locals of the running crawlForNewProfiles
  hv,        \* locals of harvest and backfill
  result,    \* what the last finished discovery call returned
  ws,        \* locals of weightedRandomSelect in the sampler specification
  other,     \* the discovery call of another request of the same process,
             \* waiting at an await while this one runs
  rq         \* the request that a handler of server.ts, the CLI or an
             \* inspection function is serving, with its locals and its answer

vars ==
  <<disk, now, calls, crawls, pc, opts, cache, posts, seenUris, seenTexts,
    newProfilesDiscovered, ex, cr, hv, result, ws, other, rq>>

\* no request
NoRq == [kind |-> "none", pc |-> "none"]

\* the variables of one discovery call outside the crawler
callVars == <<opts, posts, seenUris, seenTexts, newProfilesDiscovered, ex, hv, result>>

NoOpts ==
  [limit |-> DefaultLimit, explorationRate |-> DefaultExplorationRate,
   tags |-> <<>>, freshness |-> "any"]

NoEx ==
  [draw |-> 0, cacheSize |-> 0, shouldFullExplore |-> FALSE,
   shouldMiniExplore |-> FALSE, seeds |-> <<>>, i |-> 0]

NoCr ==
  [startHandle |-> 0, maxProfiles |-> 0, newProfiles |-> <<>>, checked |-> {},
   queue |-> <<>>, tagsToSearch |-> <<>>, tag |-> <<>>, ret |-> "idle"]

NoHv ==
  [selectedProfiles |-> <<>>, k |-> 0, queue |-> <<>>, tagsToSearch |-> <<>>,
   tag |-> <<>>]

NoResult ==
  [returned |-> FALSE, posts |-> <<>>,
   cacheStats |-> [totalProfiles |-> 0, newProfilesDiscovered |-> 0, profilesUsed |-> 0]]

NoWs == [items |-> <<>>, count |-> 0, remaining |-> <<>>, selected |-> <<>>, i |-> 0,
         returned |-> FALSE, result |-> <<>>]

\* a request whose discovery call has not started
NoCall ==
  [calls |-> 0, crawls |-> 0, pc |-> "idle", opts |-> NoOpts,
   cache |-> DefaultCache(10), posts |-> <<>>, seenUris |-> {}, seenTexts |-> {},
   newProfilesDiscovered |-> 0, ex |-> NoEx, cr |-> NoCr, hv |-> NoHv,
   result |-> NoResult]

(***************************************************************************)
(* The network crawler: crawlForNewProfiles                                *)
(***************************************************************************)

CrawlPcs ==
  {"getProfile", "getFollowers", "followers", "getFollows", "follows",
   "shuffleTags", "hashtags", "hashtagPosts", "phrase", "phrasePosts", "history"}

\* an entry that starts from an empty set of checked accounts
EnterCrawlUnseeded(startHandle, maxProfiles, ret) ==
  [NoCr EXCEPT !.startHandle = startHandle, !.maxProfiles = maxProfiles,
               !.checked = {}, !.ret = ret]

\* entry of crawlForNewProfiles(agent, cache, startHandle, maxProfiles)
EnterCrawl(startHandle, maxProfiles, ret) ==
  [NoCr EXCEPT !.startHandle = startHandle, !.maxProfiles = maxProfiles,
               !.checked = Keys(cache), !.ret = ret]

\* the posts of a feed that count: record.text present and isSwahili
SwahiliPosts(feed) ==
  SelectSeq(feed, LAMBDA p : p.text # <<>> /\ isSwahili(p.text).isSwahili)

\* tags.push(...extractHashtags(record.text)) over the counted posts
RECURSIVE FeedTags(_)
FeedTags(feed) ==
  IF feed = <<>> THEN <<>>
  ELSE extractHashtags(Head(feed).text) \o FeedTags(Tail(feed))

\* the graph channels pushing a candidate for every account whose feed
\* could be fetched, with or without a Swahili post
GraphCandidateAny(did, ans, channel) ==
  IF ans.ok
  THEN <<[did |-> did, handle |-> HandleOf(did), discoveredAt |-> now, lastSeen |-> now,
          swahiliPostCount |-> Len(SelectSeq(ans.data, LAMBDA p : isSwahili(p.text).isSwahili)),
          engagementScore |-> 1, discoveredFrom |-> <<channel, cr.startHandle>>,
          tags |-> <<>>]>>
  ELSE <<>>

\* the candidate pushed by the audience and curation-target channels for
\* the account did with the answer ans of getAuthorFeed; none on a failed
\* fetch or without a Swahili post
GraphCandidate(did, ans, channel) ==
  IF ans.ok /\ Len(SwahiliPosts(ans.data)) > 0
  THEN <<CachedProfile(did, now, Len(SwahiliPosts(ans.data)), 1,
                       <<channel, cr.startHandle>>,
                       Dedupe(FeedTags(SwahiliPosts(ans.data))))>>
  ELSE <<>>

\* the candidate pushed by the hashtag and phrase channels for a post
SearchCandidate(post, channel) ==
  IF post.text # <<>> /\ isSwahili(post.text).isSwahili
  THEN <<CachedProfile(post.author, now, 1, calculateEngagement(post),
                       <<channel, cr.tag>>, extractHashtags(post.text))>>
  ELSE <<>>

\* the cap test of a crawl that stops one candidate late
CapExceeded(newProfiles, maxProfiles) == Len(newProfiles) > maxProfiles

\* newProfiles.length >= maxProfiles
CapReached(newProfiles, maxProfiles) == Len(newProfiles) >= maxProfiles

crawlFrame == <<disk, now, calls, crawls, cache, ws, other, rq>>

\* getProfile with a rejection that no catch handles: the function is left
\* by the exception and the call returns nothing
GetProfileUncaught ==
  /\ pc = "getProfile"
  /\ \E ans \in ProfileAnswers(cr.startHandle) :
       pc' = CASE ans = "throws" -> "raised"
               [] ans = "nodata" -> cr.ret
               [] OTHER          -> "getFollowers"
  /\ UNCHANGED <<crawlFrame, callVars, cr>>

\* const profile = await agent.getProfile({ actor: startHandle })
GetProfile ==
  /\ pc = "getProfile"
  /\ \E ans \in ProfileAnswers(cr.startHandle) :
       pc' = CASE ans = "throws" -> "history"
               [] ans = "nodata" -> cr.ret
               [] OTHER          -> "getFollowers"
  /\ UNCHANGED <<crawlFrame, callVars, cr>>

\* Strategy 1: agent.getFollowers
GetFollowers ==
  /\ pc = "getFollowers"
  /\ \E ans \in FollowerAnswers :
       IF ans.ok /\ ans.data # <<>>
       THEN pc' = "followers" /\ cr' = [cr EXCEPT !.queue = ans.data]
       ELSE pc' = "getFollows" /\ cr' = cr
  /\ UNCHANGED <<crawlFrame, callVars>>

\* one iteration of the loop over followers.data.followers
CheckFollower ==
  /\ pc = "followers"
  /\ LET follower == Head(cr.queue)
         rest == Tail(cr.queue)
     IN  IF follower \in cr.checked
         THEN /\ cr' = [cr EXCEPT !.queue = rest]
              /\ pc' = IF rest = <<>> THEN "getFollows" ELSE "followers"
         ELSE \E ans \in FeedAnswers(follower) :
                LET found == cr.newProfiles \o GraphCandidate(follower, ans, "follower_of")
                IN  /\ cr' = [cr EXCEPT !.checked = @ \cup {follower},
                                        !.newProfiles = found, !.queue = rest]
                    /\ pc' = IF CapReached(found, cr.maxProfiles) \/ rest = <<>>
                             THEN "getFollows" ELSE "followers"
  /\ UNCHANGED <<crawlFrame, callVars>>

\* Strategy 2: agent.getFollows
GetFollows ==
  /\ pc = "getFollows"
  /\ \E ans \in FollowAnswers :
       IF ans.ok /\ ans.data # <<>>
       THEN pc' = "follows" /\ cr' = [cr EXCEPT !.queue = ans.data]
       ELSE pc' = "shuffleTags" /\ cr' = cr
  /\ UNCHANGED <<crawlFrame, callVars>>

\* one iteration of the loop over following.data.follows
CheckFollowed ==
  /\ pc = "follows"
  /\ LET followed == Head(cr.queue)
         rest == Tail(cr.queue)
     IN  IF followed \in cr.checked
         THEN /\ cr' = [cr EXCEPT !.queue = rest]
              /\ pc' = IF rest = <<>> THEN "shuffleTags" ELSE "follows"
         ELSE IF CapReached(cr.newProfiles, cr.maxProfiles)
         THEN /\ cr' = cr
              /\ pc' = "shuffleTags"
         ELSE \E ans \in FeedAnswers(followed) :
                /\ cr' = [cr EXCEPT !.checked = @ \cup {followed},
                            !.newProfiles = @ \o GraphCandidate(followed, ans, "following_of"),
                            !.queue = rest]
                /\ pc' = IF rest = <<>> THEN "shuffleTags" ELSE "follows"
  /\ UNCHANGED <<crawlFrame, callVars>>

\* Strategy 3: const tagsToSearch = shuffle(swahiliHashtags).slice(0, 3)
tagsToSearch ==
  [u \in RandomDraws |-> SliceTo(shuffle(swahiliHashtags, u), TagsPerSearch)]

ShuffleTags ==
  /\ pc = "shuffleTags"
  /\ \E u \in RandomDraws : cr' = [cr EXCEPT !.tagsToSearch = tagsToSearch[u]]
  /\ pc' = "hashtags"
  /\ UNCHANGED <<crawlFrame, callVars>>

\* one iteration of the loop over tagsToSearch, up to its searchPosts
SearchHashtag ==
  /\ pc = "hashtags"
  /\ IF cr.tagsToSearch = <<>> \/ CapReached(cr.newProfiles, cr.maxProfiles)
     THEN pc' = "phrase" /\ cr' = cr
     ELSE \E ans \in SearchAnswers(Head(cr.tagsToSearch)) :
            IF ans.ok /\ ans.data # <<>>
            THEN /\ pc' = "hashtagPosts"
                 /\ cr' = [cr EXCEPT !.tag = Head(cr.tagsToSearch),
                                     !.tagsToSearch = Tail(@), !.queue = ans.data]
            ELSE /\ pc' = "hashtags"
                 /\ cr' = [cr EXCEPT !.tagsToSearch = Tail(@)]
  /\ UNCHANGED <<crawlFrame, callVars>>

\* one iteration of a loop over searchResults.data.posts (hashtag or phrase)
CheckSearchPost(channel, here, next) ==
  /\ pc = here
  /\ LET post == Head(cr.queue)
         rest == Tail(cr.queue)
     IN  IF post.author \in cr.checked
         THEN /\ cr' = [cr EXCEPT !.queue = rest]
              /\ pc' = IF rest = <<>> THEN next ELSE here
         ELSE IF CapReached(cr.newProfiles, cr.maxProfiles)
         THEN /\ cr' = cr
              /\ pc' = next
         ELSE /\ cr' = [cr EXCEPT !.checked = @ \cup {post.author},
                          !.newProfiles = @ \o SearchCandidate(post, channel),
                          !.queue = rest]
              /\ pc' = IF rest = <<>> THEN next ELSE here
  /\ UNCHANGED <<crawlFrame, callVars>>

CheckHashtagPost == CheckSearchPost("hashtag", "hashtagPosts", "hashtags")

\* Strategy 4: one random phrase and its searchPosts
SearchPhrase ==
  /\ pc = "phrase"
  /\ \E u \in RandomDraws :
       LET randomPhrase == swahiliPhrases[((u * Len(swahiliPhrases)) \div 100) + 1]
       IN  \E ans \in SearchAnswers(randomPhrase) :
             IF ans.ok /\ ans.data # <<>>
             THEN /\ pc' = "phrasePosts"
                  /\ cr' = [cr EXCEPT !.tag = randomPhrase, !.queue = ans.data]
             ELSE pc' = "history" /\ cr' = cr
  /\ UNCHANGED <<crawlFrame, callVars>>

CheckPhrasePost == CheckSearchPost("phrase", "phrasePosts", "history")

\* cache.crawlHistory.push(startHandle), the trim, and return newProfiles
\* the history update followed by a save of its own
UpdateHistorySaving ==
  /\ pc = "history"
  /\ cache' = [cache EXCEPT !.crawlHistory = UpdateCrawlHistory(@, cr.startHandle)]
  /\ pc' = cr.ret
  /\ disk' = saveCache(cache', now)
  /\ UNCHANGED <<now, calls, crawls, ws, other, rq, callVars, cr>>

UpdateHistory ==
  /\ pc = "history"
  /\ cache' = [cache EXCEPT !.crawlHistory = UpdateCrawlHistory(@, cr.startHandle)]
  /\ pc' = cr.ret
  /\ UNCHANGED <<disk, now, calls, crawls, ws, other, rq, callVars, cr>>

(***************************************************************************)
(* The crawl specification: a caller that invokes crawlForNewProfiles      *)
(* directly, one crawl after the other, each from a handle of its own      *)
(***************************************************************************)

\* the handle of the n-th direct crawl
DirectHandle(n) == 2000 + n

InitCrawl ==
  /\ disk = NoFile
  /\ now = 10
  /\ calls = 0
  /\ crawls = 0
  /\ pc = "direct"
  /\ opts = NoOpts
  /\ cache \in {DefaultCache(10), Prepopulated(1)}
  /\ posts = <<>>
  /\ seenUris = {}
  /\ seenTexts = {}
  /\ newProfilesDiscovered = 0
  /\ ex = NoEx
  /\ cr = NoCr
  /\ hv = NoHv
  /\ result = NoResult
  /\ ws = NoWs
  /\ other = NoCall
  /\ rq = NoRq

DirectCrawl ==
  /\ pc = "direct"
  /\ crawls < MaxCrawls
  /\ \E maxProfiles \in 1..MaxCap :
       cr' = EnterCrawl(DirectHandle(crawls + 1), maxProfiles, "direct")
  /\ crawls' = crawls + 1
  /\ pc' = "getProfile"
  /\ UNCHANGED <<disk, now, calls, cache, ws, other, rq, callVars>>

NextCrawl ==
  \/ DirectCrawl
  \/ GetProfile \/ GetFollowers \/ CheckFollower \/ GetFollows \/ CheckFollowed
  \/ ShuffleTags \/ SearchHashtag \/ CheckHashtagPost \/ SearchPhrase
  \/ CheckPhrasePost \/ UpdateHistory

SpecCrawl == InitCrawl /\ [][NextCrawl]_vars

(***************************************************************************)
(* The discovery orchestrator: smartDiscoverSwahiliPosts                   *)
(***************************************************************************)

\* the options callers pass (limit, explorationRate in hundredths, tags,
\* freshness); an absent option takes its default
Limits == {0, 1, 2, DefaultLimit}

ExplorationRates == {0, DefaultExplorationRate}

TagFilters == {<<>>, <<TagKenya>>}

\* the number of options of o that differ from their default
NonDefault(o) ==
  (IF o.limit # DefaultLimit THEN 1 ELSE 0)
    + (IF o.explorationRate # DefaultExplorationRate THEN 1 ELSE 0)
    + (IF o.tags # <<>> THEN 1 ELSE 0) + (IF o.freshness # "any" THEN 1 ELSE 0)

\* the calls of the model set at most one option
Options ==
  {o \in [limit : Limits, explorationRate : ExplorationRates, tags : TagFilters,
          freshness : {"any", "recent"}] : NonDefault(o) <= 1}

\* the candidate seed list: the seed handles, then the handles of up to 30
\* cached profiles in the order of .sort(() => Math.random() - 0.5), all
\* shuffled; every Math.random() of the step yields u
Seeds(c, u) ==
  CHOOSE r \in
    {shuffle(allSeeds, u) :
       allSeeds \in {c.seedProfiles \o [k \in 1..Len(sample) |-> sample[k].handle] :
                      sample \in {SliceTo(shuffle(Values(c), u), SeedSample)}}} : TRUE

\* the mode decision with the draw compared by <=
ShouldFullExploreLe(draw, explorationRate, cacheSize) ==
  draw <= explorationRate \/ cacheSize < FullExploreBelow

\* Math.random() < explorationRate || cacheSize < 15
ShouldFullExplore(draw, explorationRate, cacheSize) ==
  draw < explorationRate \/ cacheSize < FullExploreBelow

\* the mini-exploration test with its comparison turned around
ShouldMiniExploreAbove(cacheSize) == cacheSize > MiniExploreBelow

\* cacheSize < 50
ShouldMiniExplore(cacheSize) == cacheSize < MiniExploreBelow

\* entry of smartDiscoverSwahiliPosts: loadCache, the mode decision and the
\* seed list
StartCallWith(options) ==
  /\ pc = "idle"
  /\ calls < MaxCalls
  /\ calls' = calls + 1
  /\ now' = now + 1
  /\ \E u \in RandomDraws, c \in {loadCache(disk, now + 1)} :
     \E cacheSize \in {Cardinality(Keys(c))}, seeds \in {Seeds(c, u)} :
     \E o \in options, draw \in ExploreDraws :
       LET shouldFullExplore == ShouldFullExplore(draw, o.explorationRate, cacheSize)
           shouldMiniExplore == ShouldMiniExplore(cacheSize)
       IN  /\ opts' = o
           /\ cache' = c
           /\ ex' = [draw |-> draw, cacheSize |-> cacheSize,
                     shouldFullExplore |-> shouldFullExplore,
                     shouldMiniExplore |-> shouldMiniExplore,
                     seeds |-> seeds, i |-> 0]
           /\ pc' = IF shouldFullExplore THEN "fullExplore"
                    ELSE IF shouldMiniExplore THEN "miniExplore" ELSE "select"
  /\ posts' = <<>>
  /\ seenUris' = {}
  /\ seenTexts' = {}
  /\ newProfilesDiscovered' = 0
  /\ crawls' = 0
  /\ cr' = NoCr
  /\ hv' = NoHv
  /\ result' = NoResult
  /\ UNCHANGED <<disk, ws, other>>

\* a call with any of the options of the model
StartCall == StartCallWith(Options) /\ UNCHANGED rq

\* one iteration of the loop of full exploration, up to its call of
\* crawlForNewProfiles(agent, cache, seeds[i], 25)
FullExploreCrawl ==
  /\ pc = "fullExplore"
  /\ IF ex.i < Min(MaxFullCrawls, Len(ex.seeds))
     THEN /\ cr' = EnterCrawl(ex.seeds[ex.i + 1], FullCrawlCap, "fullMerge")
          /\ crawls' = crawls + 1
          /\ pc' = "getProfile"
     ELSE /\ pc' = "select"
          /\ UNCHANGED <<cr, crawls>>
  /\ UNCHANGED <<disk, now, calls, cache, ws, other, rq, callVars>>

\* the merge of the candidates of one crawl of full exploration; the locals
\* of the crawl that returned are gone
FullMerge ==
  /\ pc = "fullMerge"
  /\ LET st == MergeProfiles([cache |-> cache,
                              newProfilesDiscovered |-> newProfilesDiscovered],
                             cr.newProfiles, 1)
     IN  /\ cache' = st.cache
         /\ newProfilesDiscovered' = st.newProfilesDiscovered
  /\ ex' = [ex EXCEPT !.i = @ + 1]
  /\ cr' = NoCr
  /\ pc' = "fullExplore"
  /\ UNCHANGED <<disk, now, calls, crawls, ws, other, rq, opts, posts, seenUris, seenTexts, hv, result>>

\* mini exploration: crawlForNewProfiles(agent, cache, seeds[0], 10)
MiniExploreCrawl ==
  /\ pc = "miniExplore"
  /\ cr' = EnterCrawl(ex.seeds[1], MiniCrawlCap, "miniMerge")
  /\ crawls' = crawls + 1
  /\ pc' = "getProfile"
  /\ UNCHANGED <<disk, now, calls, cache, ws, other, rq, callVars>>

\* the merge of the candidates of the crawl of mini exploration
MiniMerge ==
  /\ pc = "miniMerge"
  /\ LET st == MergeProfiles([cache |-> cache,
                              newProfilesDiscovered |-> newProfilesDiscovered],
                             cr.newProfiles, 1)
     IN  /\ cache' = st.cache
         /\ newProfilesDiscovered' = st.newProfilesDiscovered
  /\ cr' = NoCr
  /\ pc' = "select"
  /\ UNCHANGED <<disk, now, calls, crawls, ws, other, rq, opts, posts, seenUris, seenTexts, ex, hv, result>>

\* tags.length > 0 && p.tags.some((t) => tags.includes(t))
TagMatch(tags, filter) == filter # <<>> /\ Range(tags) \cap Range(filter) # {}

\* the weight of a cached profile, in thousandths, for a jitter draw of u
Weight(p, filter, u) ==
  p.swahiliPostCount * 2000 + p.engagementScore * 100
    + (IF TagMatch(p.tags, filter) THEN 5000 ELSE 0) + u * 30

\* the profile annotated with its weight: { ...p, weight }
Weighted(p, filter, u) ==
  [did |-> p.did, handle |-> p.handle, discoveredAt |-> p.discoveredAt,
   lastSeen |-> p.lastSeen, swahiliPostCount |-> p.swahiliPostCount,
   engagementScore |-> p.engagementScore, discoveredFrom |-> p.discoveredFrom,
   tags |-> p.tags, weight |-> Weight(p, filter, u)]

\* the weighted list and weightedRandomSelect(shuffle(profileList), min(20, n))
Select ==
  /\ pc = "select"
  /\ \E u \in RandomDraws, rnd \in SamplerDraws :
     \E values \in {Values(cache)} :
     \E profileList \in {[k \in 1..Len(values) |-> Weighted(values[k], opts.tags, u)]} :
     \E shuffled \in {shuffle(profileList, u)} :
       hv' = [NoHv EXCEPT !.selectedProfiles =
                weightedRandomSelect(shuffled, Min(MaxSelected, Len(profileList)), rnd),
              !.k = 1]
  /\ pc' = "harvest"
  /\ UNCHANGED <<disk, now, calls, crawls, cache, ws, other, rq, cr, opts, posts, seenUris,
                 seenTexts, newProfilesDiscovered, ex, result>>

\* record.text.slice(0, 100)
TextHash(text) == SliceTo(text, TextHashLen)

\* the duplicate test that looks at URIs only
DuplicateUri(post) == post.uri \in seenUris

\* seenUris.has(uri) || seenTexts.has(textHash)
Duplicate(post) == post.uri \in seenUris \/ TextHash(post.text) \in seenTexts

\* freshness === "recent" && record.createdAt && postDate < weekAgo
Stale(post) ==
  opts.freshness = "recent" /\ "createdAt" \in DOMAIN post
    /\ post.createdAt < now - FreshDays

\* tags.length > 0 && !postTags.some((t) => tags.includes(t))
TagMismatch(post) ==
  opts.tags # <<>> /\ Range(extractHashtags(post.text)) \cap Range(opts.tags) = {}

\* the DiscoveredPost pushed for an accepted post (cid and displayName are
\* carried along unread and left out)
DiscoveredPost(post, method) ==
  [uri |-> post.uri, text |-> post.text,
   createdAt |-> IF "createdAt" \in DOMAIN post THEN post.createdAt ELSE now,
   author |-> [did |-> post.author, handle |-> HandleOf(post.author)],
   confidence |-> isSwahili(post.text).confidence,
   discoveryMethod |-> method,
   engagementScore |-> calculateEngagement(post)]

\* the limit test of a call that stops one post late
LimitExceeded(accepted, limit) == Len(accepted) > limit

\* posts.length >= limit
LimitReached(accepted, limit) == Len(accepted) >= limit

\* one iteration of the loop over selectedProfiles, up to its getAuthorFeed
HarvestProfile ==
  /\ pc = "harvest"
  /\ IF hv.k > Len(hv.selectedProfiles) \/ LimitReached(posts, opts.limit)
     THEN pc' = "backfill" /\ hv' = hv
     ELSE \E ans \in FeedAnswers(hv.selectedProfiles[hv.k].did) :
            IF ans.ok /\ ans.data # <<>>
            THEN pc' = "harvestPosts" /\ hv' = [hv EXCEPT !.queue = ans.data]
            ELSE pc' = "harvest" /\ hv' = [hv EXCEPT !.k = @ + 1]
  /\ UNCHANGED <<disk, now, calls, crawls, cache, ws, other, rq, cr, opts, posts, seenUris,
                 seenTexts, newProfilesDiscovered, ex, result>>

\* the statistics update that counts the post and leaves lastSeen as it was
UpdateStatsStale(c, did) ==
  IF did \in DOMAIN c.profiles
  THEN [c EXCEPT !.profiles[did].swahiliPostCount = @ + 1]
  ELSE c

\* cache.profiles[did].lastSeen = now; cache.profiles[did].swahiliPostCount++
\* guarded by cache.profiles[did]
UpdateStats(c, did) ==
  IF did \in Keys(c)
  THEN [c EXCEPT !.profiles[did].lastSeen = now,
                 !.profiles[did].swahiliPostCount = @ + 1]
  ELSE c

\* one iteration of the loop over feed.data.feed of the selected profile
HarvestPost ==
  /\ pc = "harvestPosts"
  /\ LET profile == hv.selectedProfiles[hv.k]
         post == Head(hv.queue)
         rest == Tail(hv.queue)
         after == IF rest = <<>> THEN "harvest" ELSE "harvestPosts"
         skip == /\ hv' = [hv EXCEPT !.queue = rest,
                                     !.k = IF rest = <<>> THEN @ + 1 ELSE @]
                 /\ pc' = after
                 /\ UNCHANGED <<posts, seenUris, seenTexts, cache>>
     IN  IF LimitReached(posts, opts.limit)
         THEN /\ hv' = [hv EXCEPT !.queue = <<>>, !.k = @ + 1]
              /\ pc' = "harvest"
              /\ UNCHANGED <<posts, seenUris, seenTexts, cache>>
         ELSE IF post.text = <<>> \/ Duplicate(post) \/ Stale(post)
                 \/ ~isSwahili(post.text).isSwahili \/ TagMismatch(post)
         THEN skip
         ELSE /\ seenUris' = seenUris \cup {post.uri}
              /\ seenTexts' = seenTexts \cup {TextHash(post.text)}
              /\ posts' = Append(posts, DiscoveredPost(post, profile.discoveredFrom))
              /\ cache' = UpdateStats(cache, profile.did)
              /\ hv' = [hv EXCEPT !.queue = rest,
                                  !.k = IF rest = <<>> THEN @ + 1 ELSE @]
              /\ pc' = after
  /\ UNCHANGED <<disk, now, calls, crawls, ws, other, rq, cr, opts, newProfilesDiscovered, ex, result>>

\* if (posts.length < limit): the hashtags of the backfill,
\* shuffle(hashtagsToSearch).slice(0, 3)
Backfill ==
  /\ pc = "backfill"
  /\ IF ~LimitReached(posts, opts.limit)
     THEN /\ \E u \in RandomDraws :
               hv' = [hv EXCEPT !.tagsToSearch =
                        SliceTo(shuffle(IF opts.tags # <<>> THEN opts.tags
                                        ELSE defaultBackfillTags, u), TagsPerSearch)]
          /\ pc' = "backfillTags"
     ELSE /\ hv' = hv
          /\ pc' = "finish"
  /\ UNCHANGED <<disk, now, calls, crawls, cache, ws, other, rq, cr, opts, posts, seenUris,
                 seenTexts, newProfilesDiscovered, ex, result>>

\* one iteration of the loop over the backfill hashtags, up to its searchPosts
BackfillSearch ==
  /\ pc = "backfillTags"
  /\ IF hv.tagsToSearch = <<>> \/ LimitReached(posts, opts.limit)
     THEN pc' = "finish" /\ hv' = hv
     ELSE \E ans \in SearchAnswers(Head(hv.tagsToSearch)) :
            IF ans.ok /\ ans.data # <<>>
            THEN /\ pc' = "backfillPosts"
                 /\ hv' = [hv EXCEPT !.tag = Head(hv.tagsToSearch),
                                     !.tagsToSearch = Tail(@), !.queue = ans.data]
            ELSE /\ pc' = "backfillTags"
                 /\ hv' = [hv EXCEPT !.tagsToSearch = Tail(@)]
  /\ UNCHANGED <<disk, now, calls, crawls, cache, ws, other, rq, cr, opts, posts, seenUris,
                 seenTexts, newProfilesDiscovered, ex, result>>

\* the backfill insert that forgets cache.totalDiscoveries++
InsertAuthorUncounted(st, post, tag) ==
  IF post.author \notin DOMAIN st.cache.profiles
  THEN [cache |-> [st.cache EXCEPT !.profiles =
                     [d \in DOMAIN st.cache.profiles \cup {post.author} |->
                        IF d = post.author
                        THEN [did |-> post.author, handle |-> HandleOf(post.author),
                              discoveredAt |-> now, lastSeen |-> now,
                              swahiliPostCount |-> 1,
                              engagementScore |-> calculateEngagement(post),
                              discoveredFrom |-> <<"hashtag", tag>>,
                              tags |-> extractHashtags(post.text)]
                        ELSE st.cache.profiles[d]]],
        newProfilesDiscovered |-> st.newProfilesDiscovered + 1]
  ELSE st

\* the backfill insert without its guard: it replaces a cached author
InsertAuthorOverwrite(st, post, tag) ==
  [cache |-> [st.cache EXCEPT
                !.profiles =
                  [d \in DOMAIN st.cache.profiles \cup {post.author} |->
                     IF d = post.author
                     THEN [did |-> post.author, handle |-> HandleOf(post.author),
                           discoveredAt |-> now, lastSeen |-> now,
                           swahiliPostCount |-> 1,
                           engagementScore |-> calculateEngagement(post),
                           discoveredFrom |-> <<"hashtag", tag>>,
                           tags |-> extractHashtags(post.text)]
                     ELSE st.cache.profiles[d]],
                !.totalDiscoveries =
                  IF post.author \in DOMAIN st.cache.profiles THEN @ ELSE @ + 1],
   newProfilesDiscovered |->
     IF post.author \in DOMAIN st.cache.profiles THEN st.newProfilesDiscovered
     ELSE st.newProfilesDiscovered + 1]

\* the backfill insert that counts the post for an author it finds cached
InsertAuthorCounting(st, post, tag) ==
  IF post.author \notin DOMAIN st.cache.profiles
  THEN InsertAuthorOverwrite(st, post, tag)
  ELSE [st EXCEPT !.cache.profiles[post.author].swahiliPostCount = @ + 1]

\* the insert of the author of an accepted backfill post, on the state
\* st = [cache, newProfilesDiscovered], guarded by !cache.profiles[did]
InsertAuthor(st, post, tag) ==
  IF post.author \notin Keys(st.cache)
  THEN [cache |-> [PutProfile(st.cache, post.author,
                              CachedProfile(post.author, now, 1, calculateEngagement(post),
                                            <<"hashtag", tag>>, extractHashtags(post.text)))
                     EXCEPT !.totalDiscoveries = @ + 1],
        newProfilesDiscovered |-> st.newProfilesDiscovered + 1]
  ELSE st

\* one iteration of the loop over searchResults.data.posts of the backfill
BackfillPost ==
  /\ pc = "backfillPosts"
  /\ LET post == Head(hv.queue)
         rest == Tail(hv.queue)
         after == IF rest = <<>> THEN "backfillTags" ELSE "backfillPosts"
     IN  IF LimitReached(posts, opts.limit)
         THEN /\ hv' = [hv EXCEPT !.queue = <<>>]
              /\ pc' = "backfillTags"
              /\ UNCHANGED <<posts, seenUris, seenTexts, cache, newProfilesDiscovered>>
         ELSE IF post.text = <<>> \/ Duplicate(post) \/ ~isSwahili(post.text).isSwahili
         THEN /\ hv' = [hv EXCEPT !.queue = rest]
              /\ pc' = after
              /\ UNCHANGED <<posts, seenUris, seenTexts, cache, newProfilesDiscovered>>
         ELSE LET st == InsertAuthor([cache |-> cache,
                                      newProfilesDiscovered |-> newProfilesDiscovered],
                                     post, hv.tag)
              IN  /\ seenUris' = seenUris \cup {post.uri}
                  /\ seenTexts' = seenTexts \cup {TextHash(post.text)}
                  /\ posts' = Append(posts, DiscoveredPost(post, <<"hashtag", hv.tag>>))
                  /\ cache' = st.cache
                  /\ newProfilesDiscovered' = st.newProfilesDiscovered
                  /\ hv' = [hv EXCEPT !.queue = rest]
                  /\ pc' = after
  /\ UNCHANGED <<disk, now, calls, crawls, ws, other, rq, cr, opts, ex, result>>

\* the ranking score of a post times 10^7, for a jitter draw of u:
\* engagementScore * 0.3 + getTime() / 1e12 + Math.random() * 0.2
Score(post, u) == post.engagementScore * 3000000 + post.createdAt * 864 + u * 20000

\* the position at which a stable descending sort inserts post into sorted
RECURSIVE InsertRanked(_, _, _)
InsertRanked(sorted, post, u) ==
  IF sorted = <<>> THEN <<post>>
  ELSE IF Score(post, u) - Score(Head(sorted), u) > 0
  THEN <<post>> \o sorted
  ELSE <<Head(sorted)>> \o InsertRanked(Tail(sorted), post, u)

\* posts.sort((a, b) => scoreB - scoreA), every Math.random() yielding u
RECURSIVE Ranked(_, _)
Ranked(list, u) ==
  IF list = <<>> THEN <<>>
  ELSE InsertRanked(Ranked(SubSeq(list, 1, Len(list) - 1), u), list[Len(list)], u)

\* the ranking, saveCache(cache) (whose write may throw, which saveCache
\* catches) and the return value
Finish ==
  /\ pc = "finish"
  /\ \E u \in RandomDraws :
       /\ posts' = Ranked(posts, u)
       /\ result' = [returned |-> TRUE, posts |-> SliceTo(posts', opts.limit),
                     cacheStats |->
                       [totalProfiles |-> Cardinality(Keys(cache)),
                        newProfilesDiscovered |-> newProfilesDiscovered,
                        profilesUsed |-> Len(hv.selectedProfiles)]]
  /\ cache' = [cache EXCEPT !.lastUpdated = now]
  /\ disk' \in writeFileSync(disk, saveCache(cache, now))
  /\ pc' = "idle"
  /\ UNCHANGED <<now, calls, crawls, ws, other, rq, cr, opts, seenUris, seenTexts,
                 newProfilesDiscovered, ex, hv>>

Init ==
  /\ disk \in {NoFile} \cup {File(Prepopulated(n)) : n \in InitSizes}
  /\ now = 10
  /\ calls = 0
  /\ crawls = 0
  /\ pc = "idle"
  /\ opts = NoOpts
  /\ cache = DefaultCache(10)
  /\ posts = <<>>
  /\ seenUris = {}
  /\ seenTexts = {}
  /\ newProfilesDiscovered = 0
  /\ ex = NoEx
  /\ cr = NoCr
  /\ hv = NoHv
  /\ result = NoResult
  /\ ws = NoWs
  /\ other = NoCall
  /\ rq = NoRq

Next ==
  \/ StartCall
  \/ FullExploreCrawl \/ FullMerge \/ MiniExploreCrawl \/ MiniMerge
  \/ GetProfile \/ GetFollowers \/ CheckFollower \/ GetFollows \/ CheckFollowed
  \/ ShuffleTags \/ SearchHashtag \/ CheckHashtagPost \/ SearchPhrase
  \/ CheckPhrasePost \/ UpdateHistory
  \/ Select \/ HarvestProfile \/ HarvestPost
  \/ Backfill \/ BackfillSearch \/ BackfillPost \/ Finish

Spec == Init /\ [][Next]_vars

(***************************************************************************)
(* The exploitation specification: discovery calls with explorationRate 0  *)
(* on a blob of 60 profiles.  The positions of exploration have no step    *)
(* here: a call that reached one of them would stay there.                 *)
(***************************************************************************)

\* the size of the blob of the exploitation scenario
ExploitSize == 60

\* explorationRate = 0, with each of the limits
ExploitOptions ==
  {o \in [limit : Limits, explorationRate : {0}, tags : {<<>>}, freshness : {"any"}] : TRUE}

InitExploit ==
  /\ disk = File(Prepopulated(ExploitSize))
  /\ now = 10
  /\ calls = 0
  /\ crawls = 0
  /\ pc = "idle"
  /\ opts = NoOpts
  /\ cache = DefaultCache(10)
  /\ posts = <<>>
  /\ seenUris = {}
  /\ seenTexts = {}
  /\ newProfilesDiscovered = 0
  /\ ex = NoEx
  /\ cr = NoCr
  /\ hv = NoHv
  /\ result = NoResult
  /\ ws = NoWs
  /\ other = NoCall
  /\ rq = NoRq

StartExploit == StartCallWith(ExploitOptions) /\ UNCHANGED rq

NextExploit ==
  \/ StartExploit
  \/ Select \/ HarvestProfile \/ HarvestPost
  \/ Backfill \/ BackfillSearch \/ BackfillPost \/ Finish

SpecExploit == InitExploit /\ [][NextExploit]_vars

(***************************************************************************)
(* The sampler specification: weightedRandomSelect(items, count) on its    *)
(* own, one iteration of its outer loop per step, each Math.random() of    *)
(* an iteration drawn separately                                           *)
(***************************************************************************)

\* the weights of the candidates, in thousandths (1 and 100)
SamplerWeights == {1000, 100000}

\* the candidate lists: the k-th candidate carries the id k
SamplerItems ==
  UNION {{[k \in 1..n |-> [id |-> k, weight |-> w[k]]] : w \in [1..n -> SamplerWeights]}
           : n \in 0..MaxItems}

\* the draws of Math.random() for the jitter of one candidate
JitterDraws == {0, 99}

\* the draws of Math.random() for random = Math.random() * totalWeight
TargetDraws == {0, 50, 99}

InitSampler ==
  /\ disk = NoFile
  /\ now = 10
  /\ calls = 0
  /\ crawls = 0
  /\ pc = "sampler"
  /\ opts = NoOpts
  /\ cache = DefaultCache(10)
  /\ posts = <<>>
  /\ seenUris = {}
  /\ seenTexts = {}
  /\ newProfilesDiscovered = 0
  /\ ex = NoEx
  /\ cr = NoCr
  /\ hv = NoHv
  /\ result = NoResult
  /\ other = NoCall
  /\ rq = NoRq
  /\ \E items \in SamplerItems, count \in 0..(MaxItems + 1) :
       ws = [NoWs EXCEPT !.items = items, !.count = count, !.remaining = items]

samplerFrame ==
  <<disk, now, calls, crawls, pc, opts, cache, posts, seenUris, seenTexts,
    newProfilesDiscovered, ex, cr, hv, result, other, rq>>

\* if (items.length <= count) return items
SamplerReturnItems ==
  /\ pc = "sampler"
  /\ ~ws.returned
  /\ Len(ws.items) <= ws.count
  /\ ws' = [ws EXCEPT !.returned = TRUE, !.result = ws.items]
  /\ UNCHANGED samplerFrame

\* one iteration of the outer loop
SamplerStep ==
  /\ pc = "sampler"
  /\ ~ws.returned
  /\ Len(ws.items) > ws.count
  /\ ws.i < ws.count /\ Len(ws.remaining) > 0
  /\ \E ur \in TargetDraws :
       \E u1 \in [1..Len(ws.remaining) -> JitterDraws],
          u2 \in [1..Len(ws.remaining) -> JitterDraws] :
         LET st == SelectStep([remaining |-> ws.remaining, selected |-> ws.selected,
                               i |-> ws.i], ur, u1, u2)
         IN  ws' = [ws EXCEPT !.remaining = st.remaining, !.selected = st.selected,
                              !.i = st.i]
  /\ UNCHANGED samplerFrame

\* return selected
SamplerReturnSelected ==
  /\ pc = "sampler"
  /\ ~ws.returned
  /\ Len(ws.items) > ws.count
  /\ ~(ws.i < ws.count /\ Len(ws.remaining) > 0)
  /\ ws' = [ws EXCEPT !.returned = TRUE, !.result = ws.selected]
  /\ UNCHANGED samplerFrame

NextSampler == SamplerReturnItems \/ SamplerStep \/ SamplerReturnSelected

SpecSampler == InitSampler /\ [][NextSampler]_vars

(***************************************************************************)
(* Properties                                                              *)
(***************************************************************************)

\* the positions of a discovery call after its exploration
AfterExplore ==
  {"select", "harvest", "harvestPosts", "backfill", "backfillTags", "backfillPosts",
   "finish"}

\* C1: the cache (in memory and persisted) holds at most one entry per account
\* identity and every entry is stored under the key equal to its own did.
C1_IdentityUnique ==
  /\ \A d \in DOMAIN cache.profiles : cache.profiles[d].did = d
  /\ Cardinality({cache.profiles[d].did : d \in DOMAIN cache.profiles})
       = Cardinality(DOMAIN cache.profiles)
  /\ Readable(disk) =>
       /\ \A d \in DOMAIN Blob(disk).profiles : Blob(disk).profiles[d].did = d
       /\ Cardinality({Blob(disk).profiles[d].did : d \in DOMAIN Blob(disk).profiles})
            = Cardinality(DOMAIN Blob(disk).profiles)

\* a call returned after a crawl merge inserted an account found as a follower
\* and the backfill inserted account 1 (no crawl channel files it under a hashtag)
C1_Witness ==
  /\ result.returned
  /\ 1 \in DOMAIN cache.profiles /\ 61 \in DOMAIN cache.profiles
  /\ cache.profiles[61].discoveredFrom[1] = "follower_of"
  /\ cache.profiles[1].discoveredFrom[1] = "hashtag"
  /\ Readable(disk) /\ DOMAIN Blob(disk).profiles = {1, 61}

\* C2: during a discovery call the increase of totalDiscoveries equals
\* newProfilesDiscovered and the increase of the number of cached profiles,
\* the call reports that number, and totalDiscoveries equals the number of
\* cached profiles.
C2_DiscoveriesCounted ==
  /\ cache.totalDiscoveries = Cardinality(DOMAIN cache.profiles)
  /\ Readable(disk) => Blob(disk).totalDiscoveries = Cardinality(DOMAIN Blob(disk).profiles)
  /\ pc \in AfterExplore \cup CrawlPcs \cup {"fullExplore", "fullMerge", "miniExplore", "miniMerge"} =>
       LET before == IF Readable(disk) THEN Blob(disk) ELSE [totalDiscoveries |-> 0, profiles |-> <<>>]
       IN  /\ cache.totalDiscoveries - before.totalDiscoveries = newProfilesDiscovered
           /\ Cardinality(DOMAIN cache.profiles) - Cardinality(DOMAIN before.profiles)
                = newProfilesDiscovered
  /\ result.returned =>
       /\ result.cacheStats.newProfilesDiscovered = newProfilesDiscovered
       /\ result.cacheStats.totalProfiles - ex.cacheSize = newProfilesDiscovered
       /\ result.cacheStats.totalProfiles = cache.totalDiscoveries

\* a call on the blob of 15 profiles returned after the backfill inserted an author
C2_Witness ==
  /\ result.returned
  /\ ex.cacheSize = 15
  /\ result.cacheStats.newProfilesDiscovered = 1
  /\ \E k \in 1..Len(result.posts) :
       /\ result.posts[k].discoveryMethod[1] = "hashtag"
       /\ result.posts[k].author.did = 61
       /\ cache.profiles[61].discoveredFrom = result.posts[k].discoveryMethod

\* the fields of a profile that stay as they were at its insertion
Provenance(p) == <<p.discoveredAt, p.discoveredFrom, p.engagementScore>>

\* C3: once a profile is in the cache, no step of a discovery call changes its
\* discoveredAt, discoveredFrom or engagementScore or lowers its
\* swahiliPostCount, in memory or in the persisted blob.
C3_ProvenanceFixed ==
  [][/\ pc # "idle" =>
          \A d \in DOMAIN cache.profiles \cap DOMAIN cache'.profiles :
            /\ Provenance(cache'.profiles[d]) = Provenance(cache.profiles[d])
            /\ cache'.profiles[d].swahiliPostCount >= cache.profiles[d].swahiliPostCount
     /\ Readable(disk) /\ Readable(disk') =>
          \A d \in DOMAIN Blob(disk).profiles \cap DOMAIN Blob(disk').profiles :
            /\ Provenance(Blob(disk').profiles[d]) = Provenance(Blob(disk).profiles[d])
            /\ Blob(disk').profiles[d].swahiliPostCount
                 >= Blob(disk).profiles[d].swahiliPostCount]_vars

\* the backfill accepted a post of account 1, which the blob already held: its
\* entry still carries the discovery time of the blob
C3_Witness ==
  /\ pc \in {"backfillTags", "backfillPosts", "finish"}
  /\ 1 \in DOMAIN cache.profiles
  /\ cache.profiles[1].discoveredAt < now
  /\ \E k \in 1..Len(posts) :
       posts[k].author.did = 1 /\ posts[k].discoveryMethod[1] = "hashtag"

\* C4: every cached profile has swahiliPostCount >= 1 from its insertion on,
\* and no step of a discovery call lowers it.
C4_PostCountPositive ==
  [][/\ \A d \in DOMAIN cache'.profiles : cache'.profiles[d].swahiliPostCount >= 1
     /\ Readable(disk') =>
          \A d \in DOMAIN Blob(disk').profiles : Blob(disk').profiles[d].swahiliPostCount >= 1
     /\ pc # "idle" =>
          \A d \in DOMAIN cache.profiles \cap DOMAIN cache'.profiles :
            cache'.profiles[d].swahiliPostCount >= cache.profiles[d].swahiliPostCount]_vars

\* a profile inserted in this call by the phrase channel (with count 1) was
\* harvested and counts two posts
C4_Witness ==
  \E d \in DOMAIN cache.profiles :
    /\ cache.profiles[d].discoveredAt = now
    /\ cache.profiles[d].discoveredFrom[1] = "phrase"
    /\ cache.profiles[d].swahiliPostCount = 2

\* C5: a call explores fully exactly when the draw is below explorationRate or
\* the loaded cache holds fewer than 15 profiles, crawling then from
\* min(5, number of seed candidates) handles with cap 25; otherwise it crawls
\* once with cap 10 exactly when the cache holds fewer than 50 profiles (so 15
\* to 49, with a starting handle at hand); otherwise it does not crawl.
C5_ModeDecision ==
  pc \in AfterExplore \cup CrawlPcs \cup {"fullExplore", "fullMerge", "miniExplore", "miniMerge"} =>
    LET size == IF Readable(disk) THEN Cardinality(DOMAIN Blob(disk).profiles) ELSE 0
        full == ex.draw < opts.explorationRate \/ size < 15
        mini == ~full /\ size < 50
        planned == IF full THEN (IF Len(ex.seeds) < 5 THEN Len(ex.seeds) ELSE 5)
                   ELSE IF mini THEN 1 ELSE 0
    IN  /\ crawls <= planned
        /\ pc \in AfterExplore => crawls = planned
        /\ pc \in CrawlPcs =>
             /\ crawls >= 1
             /\ cr.maxProfiles = IF full THEN 25 ELSE 10
             /\ cr.startHandle = ex.seeds[IF full THEN crawls ELSE 1]
        /\ mini => size >= 15 /\ size <= 49 /\ Len(ex.seeds) >= 1

\* a call on the blob of 15 profiles whose draw did not trigger full
\* exploration has made its one crawl of mini exploration
C5_Witness ==
  /\ pc = "select"
  /\ crawls = 1
  /\ ex.cacheSize = 15
  /\ ex.draw >= opts.explorationRate

\* C6: crawlHistory holds at most 25 handles after any sequence of crawls.
C6_HistoryAtMost25 == Len(cache.crawlHistory) <= 25

\* C7: a crawl with a cap of at least 1 holds at most maxProfiles candidates,
\* and once their number has reached the cap no later step of the crawl
\* examines an account or adds a candidate.
C7_CrawlCap ==
  /\ [](Len(cr.newProfiles) <= cr.maxProfiles)
  /\ [][(pc \in CrawlPcs /\ Len(cr.newProfiles) >= cr.maxProfiles /\ pc' # "getProfile") =>
          (cr'.newProfiles = cr.newProfiles /\ cr'.checked = cr.checked)]_vars

\* a crawl with cap 1 returned its one candidate, account 1 found as a
\* follower, and never examined account 61 that the later channels offered
C7_Witness ==
  /\ pc = "direct"
  /\ cr.maxProfiles = 1
  /\ Len(cr.newProfiles) = 1
  /\ cr.newProfiles[1].did = 1
  /\ cr.newProfiles[1].discoveredFrom[1] = "follower_of"
  /\ 61 \notin cr.checked
  /\ Len(cache.crawlHistory) >= 1

\* C8: the sampler returns exactly min(K, N) candidates, all distinct and all
\* taken from the input, whatever its random draws.
C8_SamplerExact ==
  ws.returned =>
    /\ Len(ws.result) = IF ws.count < Len(ws.items) THEN ws.count ELSE Len(ws.items)
    /\ \A i, j \in 1..Len(ws.result) : i # j => ws.result[i] # ws.result[j]
    /\ \A i \in 1..Len(ws.result) : \E k \in 1..Len(ws.items) : ws.result[i] = ws.items[k]

\* the first 100 characters of a text
Prefix100(text) == SubSeq(text, 1, IF Len(text) < 100 THEN Len(text) ELSE 100)

\* no two entries of a list of posts share a URI or their first 100 characters
NoTwoAlike(list) ==
  \A i, j \in 1..Len(list) :
    i # j => /\ list[i].uri # list[j].uri
             /\ Prefix100(list[i].text) # Prefix100(list[j].text)

\* C9: no two posts accepted or returned by one discovery call share a URI or
\* the same first 100 characters of text.
C9_NoDuplicatePosts == NoTwoAlike(posts) /\ NoTwoAlike(result.posts)

\* the harvest of the feed of account 1 accepted the posts c and a and went
\* past the post g, whose text is that of a
C9_Witness ==
  /\ pc = "backfill"
  /\ Len(posts) = 2
  /\ posts[1].uri = "at://c" /\ posts[2].uri = "at://a"
  /\ "at://g" \notin seenUris

\* C10: the number of accepted posts never exceeds limit during harvest and
\* backfill, and a call returns at most limit posts.
C10_AtMostLimit ==
  /\ Len(posts) <= opts.limit
  /\ result.returned => Len(result.posts) <= opts.limit

\* the harvest has accepted limit posts while posts of the feed are left over
C10_Witness ==
  /\ pc = "harvestPosts"
  /\ opts.limit >= 1
  /\ Len(posts) = opts.limit
  /\ hv.queue # <<>>

\* C11: a call with a non-empty tag filter returns only posts that have one of
\* the requested tags among the hashtags extracted from their text.
C11_TagFilter ==
  (result.returned /\ opts.tags # <<>>) =>
    \A k \in 1..Len(result.posts) :
      Range(extractHashtags(result.posts[k].text)) \cap Range(opts.tags) # {}

\* C12: a call with freshness "recent" returns only posts created within the
\* last 7 days.
C12_RecentOnly ==
  (result.returned /\ opts.freshness = "recent") =>
    \A k \in 1..Len(result.posts) : result.posts[k].createdAt >= now - 7

\* the positions of a discovery call inside its exploration
ExplorePcs == CrawlPcs \cup {"fullExplore", "fullMerge", "miniExplore", "miniMerge"}

\* some cached profile has this provenance
CachedProvenance(method) ==
  \E d \in DOMAIN cache.profiles : cache.profiles[d].discoveredFrom = method

\* the call in progress, or the last one to return, loaded the pre-populated
\* cache
OnPrepopulated == calls >= 1 /\ ex.cacheSize >= ExploitSize

C14_ChannelsIndependent ==
  [][/\ (pc' = "history" /\ pc # "history") => pc \in {"phrase", "phrasePosts"}
     /\ (pc \in CrawlPcs /\ Len(cr'.newProfiles) >= Len(cr.newProfiles)) =>
          SubSeq(cr'.newProfiles, 1, Len(cr.newProfiles)) = cr.newProfiles
     /\ pc \in CrawlPcs => Len(cr'.newProfiles) >= Len(cr.newProfiles)]_vars

(***************************************************************************)
(* The cache store on its own: a caller of loadCache, saveCache and        *)
(* clearCache (crawler.ts exports all three)                               *)
(***************************************************************************)

\* store operations that read the clock, per run
MaxStoreOps == 4

\* a blob of the layout before version 2.0: no version, seedProfiles or
\* crawlHistory
LegacyCache ==
  [lastUpdated |-> 1, totalDiscoveries |-> 1,
   profiles |-> [d \in {1} |->
                   CachedProfile(d, 1, 1, 1, <<"follower_of", SeedHandles[1]>>, <<>>)]]

\* a blob without version that has its seedProfiles already
SeededLegacyCache ==
  [lastUpdated |-> 1, totalDiscoveries |-> 1,
   profiles |-> LegacyCache.profiles, seedProfiles |-> <<SeedHandles[2]>>]

\* the files the store may find
StoreFiles ==
  {NoFile, Truncated, File(DefaultCache(1)), File(LegacyCache), File(SeededLegacyCache)}
    \cup {File(Prepopulated(n)) : n \in {1, 2}}

StorePcs == {"store", "loaded", "saved", "cleared"}

storeFrame ==
  <<calls, crawls, opts, posts, seenUris, seenTexts, newProfilesDiscovered,
    ex, cr, hv, result, ws, other, rq>>

InitStore ==
  /\ disk \in StoreFiles
  /\ now = 10
  /\ calls = 0
  /\ crawls = 0
  /\ pc = "store"
  /\ opts = NoOpts
  /\ cache = DefaultCache(10)
  /\ posts = <<>>
  /\ seenUris = {}
  /\ seenTexts = {}
  /\ newProfilesDiscovered = 0
  /\ ex = NoEx
  /\ cr = NoCr
  /\ hv = NoHv
  /\ result = NoResult
  /\ ws = NoWs
  /\ other = NoCall
  /\ rq = NoRq

\* const cache = loadCache()
StoreLoad ==
  /\ pc \in StorePcs
  /\ now < 10 + MaxStoreOps
  /\ now' = now + 1
  /\ cache' = loadCache(disk, now')
  /\ pc' = "loaded"
  /\ UNCHANGED <<disk, storeFrame>>

\* saveCache(cache) of the cache that loadCache returned
StoreSave ==
  /\ pc = "loaded"
  /\ now < 10 + MaxStoreOps
  /\ now' = now + 1
  /\ cache' = [cache EXCEPT !.lastUpdated = now']
  /\ disk' \in writeFileSync(disk, saveCache(cache, now'))
  /\ pc' = "saved"
  /\ UNCHANGED storeFrame

\* clearCache()
StoreClear ==
  /\ pc \in StorePcs
  /\ disk' \in clearCache(disk)
  /\ pc' = "cleared"
  /\ UNCHANGED <<now, cache, storeFrame>>

NextStore == StoreLoad \/ StoreSave \/ StoreClear

SpecStore == InitStore /\ [][NextStore]_vars

(***************************************************************************)
(* Two requests of POST /api/discover in one process.  Each handler awaits *)
(* its own smartDiscoverSwahiliPosts; the variables of the call that is    *)
(* not running are kept in other.  The steps of a call between its load    *)
(* and its save touch nothing but its own locals, so the orders of the     *)
(* loads and saves of two calls are all covered by handing over at the     *)
(* first await after the load and after the return.                        *)
(***************************************************************************)

\* the variables of the running call, as they are kept while it waits
Suspended ==
  [calls |-> calls, crawls |-> crawls, pc |-> pc, opts |-> opts, cache |-> cache,
   posts |-> posts, seenUris |-> seenUris, seenTexts |-> seenTexts,
   newProfilesDiscovered |-> newProfilesDiscovered, ex |-> ex, cr |-> cr,
   hv |-> hv, result |-> result]

\* the running call waits for its first author feed, or has returned, or
\* its request has not arrived yet
SwitchPoint == pc = "idle" \/ (pc = "harvest" /\ hv.k = 1 /\ posts = <<>>)

\* the event loop turns to the handler of the other request
Switch ==
  /\ SwitchPoint
  /\ other # Suspended
  /\ other' = Suspended
  /\ calls' = other.calls
  /\ crawls' = other.crawls
  /\ pc' = other.pc
  /\ opts' = other.opts
  /\ cache' = other.cache
  /\ posts' = other.posts
  /\ seenUris' = other.seenUris
  /\ seenTexts' = other.seenTexts
  /\ newProfilesDiscovered' = other.newProfilesDiscovered
  /\ ex' = other.ex
  /\ cr' = other.cr
  /\ hv' = other.hv
  /\ result' = other.result
  /\ UNCHANGED <<disk, now, ws, rq>>

\* the two requests ask for one post tagged kenya, without exploration
OverlapOptions ==
  [limit : {1}, explorationRate : {0}, tags : {<<TagKenya>>}, freshness : {"any"}]

StartOverlap == StartCallWith(OverlapOptions) /\ UNCHANGED rq

NextOverlap ==
  \/ StartOverlap \/ Select \/ HarvestProfile \/ HarvestPost
  \/ Backfill \/ BackfillSearch \/ BackfillPost \/ Finish \/ Switch

SpecOverlap == InitExploit /\ [][NextOverlap]_vars

(***************************************************************************)
(* Progress of a discovery call                                            *)
(***************************************************************************)

\* the steps of a started call: smartDiscoverSwahiliPosts is one async
\* function, which the event loop resumes whenever the promise it awaits
\* settles (a request resolves or rejects, a setTimeout fires)
RunCall == pc # "idle" /\ Next

SpecLive == Init /\ [][Next]_vars /\ WF_vars(RunCall)

\* C15: a started discovery call always reaches its return, whichever of
\* its network calls fail, and hands back a result.
C15_CallCompletes == (pc # "idle") ~> (pc = "idle" /\ result.returned)

\* a call has returned of which every profile lookup and every search failed:
\* it crawled, yet knows no profile and returns no post although posts were
\* asked for
C15_Witness ==
  /\ result.returned /\ pc = "idle"
  /\ crawls = Len(SeedHandles)
  /\ opts.limit > 0
  /\ result.posts = <<>>
  /\ result.cacheStats.totalProfiles = 0

\* C16: a discovery call reads the blob once, in its first step and before
\* any crawl, and never again (nothing it holds in memory is dropped while it
\* runs); the blob is written by the last step of the call only, and what a
\* successful write leaves is the in-memory cache of that moment.
C16_LoadOnceSaveOnce ==
  [][/\ (pc = "idle" /\ pc' # "idle") =>
          cache' = loadCache(disk, now') /\ crawls' = 0 /\ disk' = disk
     /\ pc # "idle" => Keys(cache) \subseteq Keys(cache')
     /\ disk' # disk => pc = "finish" /\ pc' = "idle"
     /\ (disk' # disk /\ Readable(disk')) => Blob(disk') = cache'
     /\ (pc' = "idle" /\ pc # "idle") => pc = "finish"]_vars

\* a call that crawled, merged new profiles and harvested posts has returned,
\* and the blob holds its cache
C16_Witness ==
  /\ pc = "idle" /\ result.returned
  /\ crawls >= 1 /\ newProfilesDiscovered >= 1 /\ result.posts # <<>>
  /\ cache.crawlHistory # <<>>
  /\ Readable(disk) /\ Blob(disk) = cache

\* C17: whenever no readable blob exists (no file, a file whose content does
\* not parse, or a file that clearCache removed), loadCache returns the
\* default cache: no profiles, totalDiscoveries 0, empty crawlHistory and the
\* bootstrap seed handles.
C17_LoadDefault ==
  [][(pc' = "loaded" /\ ~(disk.exists /\ disk.text.closed)) =>
       /\ DOMAIN cache' = Range(CacheKeys)
       /\ cache'.profiles = NoProfiles
       /\ cache'.totalDiscoveries = 0
       /\ cache'.crawlHistory = <<>>
       /\ cache'.seedProfiles = SeedHandles
       /\ cache'.version = "2.0"]_vars

\* loadCache has answered with the default cache on a file that exists and
\* does not parse
C17_Witness ==
  /\ pc = "loaded"
  /\ disk.exists /\ ~disk.text.closed
  /\ cache.profiles = NoProfiles /\ cache.seedProfiles = SeedHandles

\* C18: a cache c that loadCache returned, saved with saveCache and loaded
\* again, comes back equal to c in every member but lastUpdated.
C18_RoundTrip ==
  [][(pc = "saved" /\ pc' = "loaded") =>
       /\ DOMAIN cache' = DOMAIN cache
       /\ \A key \in DOMAIN cache \ {"lastUpdated"} : cache'[key] = cache[key]]_vars

\* C19: when the save that ends a discovery call fails, the call still
\* returns its posts and cacheStats, and the blob holds what it held before
\* the call.
C19_SaveFailureKeepsBlob ==
  [][(pc = "finish" /\ pc' = "idle") =>
       /\ result'.returned
       /\ disk' # saveCache(cache, now) => disk' = disk]_vars

LoginAnswers == {"ok", "throws"}

\* a handler that goes on whatever the login did
AuthenticatedAnyLogin(creds, login) == creds

\* the handler gets past the test of BSKY_USERNAME and BSKY_PASSWORD
\* (creds: both are set) and past await agent.login
Authenticated(creds, login) == creds /\ login = "ok"

\* the response to a request that does not authenticate: 401 from the test
\* of the credentials, 500 from the catch of the handler
AuthError(creds) ==
  IF ~creds THEN [status |-> 401, error |-> "Missing BSKY_USERNAME or BSKY_PASSWORD"]
  ELSE [status |-> 500, error |-> "login failed"]

\* everything but the request
serverFrame ==
  <<disk, now, calls, crawls, pc, opts, cache, posts, seenUris, seenTexts,
    newProfilesDiscovered, ex, cr, hv, result, ws, other>>

\* a request of POST /api/discover arrives: lines 71-86 of the handler
PostDiscover ==
  /\ pc = "idle"
  /\ rq.pc \in {"none", "responded"}
  /\ \E creds \in BOOLEAN, login \in LoginAnswers :
       /\ Authenticated(creds, login) => calls < MaxCalls
       /\ rq' = IF Authenticated(creds, login)
                THEN [kind |-> "discover", pc |-> "authed", creds |-> creds,
                      login |-> login, entered |-> FALSE, status |-> 0,
                      error |-> "", posts |-> <<>>]
                ELSE [kind |-> "discover", pc |-> "responded", creds |-> creds,
                      login |-> login, entered |-> FALSE,
                      status |-> AuthError(creds).status,
                      error |-> AuthError(creds).error, posts |-> <<>>]
  /\ UNCHANGED serverFrame

\* await smartDiscoverSwahiliPosts(agent, {limit, explorationRate, tags, freshness})
DiscoverCall ==
  /\ rq.kind = "discover"
  /\ rq.pc = "authed"
  /\ StartCallWith(Options)
  /\ rq' = [rq EXCEPT !.pc = "running", !.entered = TRUE]

\* res.json({mode: "discover", posts: result.posts, ...})
DiscoverRespond ==
  /\ rq.kind = "discover"
  /\ rq.pc = "running"
  /\ pc = "idle"
  /\ result.returned
  /\ rq' = [rq EXCEPT !.pc = "responded", !.status = 200, !.posts = result.posts]
  /\ UNCHANGED serverFrame

NextServer ==
  \/ PostDiscover \/ DiscoverCall \/ DiscoverRespond
  \/ FullExploreCrawl \/ FullMerge \/ MiniExploreCrawl \/ MiniMerge
  \/ GetProfile \/ GetFollowers \/ CheckFollower \/ GetFollows \/ CheckFollowed
  \/ ShuffleTags \/ SearchHashtag \/ CheckHashtagPost \/ SearchPhrase
  \/ CheckPhrasePost \/ UpdateHistory
  \/ Select \/ HarvestProfile \/ HarvestPost
  \/ Backfill \/ BackfillSearch \/ BackfillPost \/ Finish

SpecServer == Init /\ [][NextServer]_vars

\* C21: a request of POST /api/discover whose credentials are missing or
\* whose login fails is answered at once with an error (401 or 500) and no
\* posts; the discovery function is not entered for it, and as long as it is
\* the last request nothing of the cache, in memory or on disk, and nothing of
\* a discovery call changes.
C21_AuthFailureFatal ==
  [][(rq'.kind = "discover" /\ ~(rq'.creds /\ rq'.login = "ok")) =>
       /\ rq'.pc = "responded"
       /\ rq'.status \in {401, 500}
       /\ rq'.posts = <<>>
       /\ ~rq'.entered
       /\ UNCHANGED serverFrame]_vars

\* a login failed after an earlier request had run a discovery call to its
\* end and saved its cache
C21_Witness ==
  /\ rq.kind = "discover"
  /\ rq.creds
  /\ rq.login = "throws"
  /\ rq.status = 500
  /\ calls = 1
  /\ result.returned
  /\ Readable(disk)
  /\ Blob(disk) = cache

(***************************************************************************)
(* The validator on its own: isSwahili is applied to texts of every length *)
(* around the minimum, padded with blanks, and to every answer of the      *)
(* classifier.                                                             *)
(***************************************************************************)

\* largest number of blanks before and after a text
MaxPad == 2

\* texts of 0, 9, 10 and 11 letters between up to MaxPad blanks
ValidatorTexts ==
  {Rep(" ", l) \o Rep("a", n) \o Rep(" ", r) :
     l \in 0..MaxPad, r \in 0..MaxPad,
     n \in {0, MinTextLen - 1, MinTextLen, MinTextLen + 1}}

\* what langdetect.detect may do: throw, or return a list of {lang, prob}
\* with at most one entry per language
ClassifierAnswers ==
  {[throws |-> TRUE, results |-> <<>>]} \cup
  {[throws |-> FALSE, results |-> r] :
     r \in {<<>>,
            <<[lang |-> "en", prob |-> 99]>>,
            <<[lang |-> "sw", prob |-> 89]>>,
            <<[lang |-> "sw", prob |-> 90]>>,
            <<[lang |-> "sw", prob |-> 97]>>,
            <<[lang |-> "sw", prob |-> 98]>>,
            <<[lang |-> "sw", prob |-> 99]>>,
            <<[lang |-> "id", prob |-> 5], [lang |-> "sw", prob |-> 90]>>,
            <<[lang |-> "sw", prob |-> 89], [lang |-> "so", prob |-> 11]>>,
            <<[lang |-> "en", prob |-> 60], [lang |-> "sw", prob |-> 40]>>}}

\* a call of isSwahili(text); detected tells whether langdetect.detect was
\* called
Validate ==
  /\ \E text \in ValidatorTexts, answer \in ClassifierAnswers :
       rq' = [kind |-> "validate", pc |-> "returned", text |-> text,
              answer |-> answer, detected |-> ~ShortCircuit(text),
              out |-> isSwahiliOf(text, answer)]
  /\ UNCHANGED serverFrame

SpecValidator == Init /\ [][Validate]_vars

\* the probability the classifier reports for Swahili, 0 when it reports none
SwahiliProb(answer) ==
  IF answer.throws \/ \A k \in 1..Len(answer.results) : answer.results[k].lang # "sw"
  THEN 0
  ELSE (CHOOSE r \in Range(answer.results) : r.lang = "sw").prob

\* C22: isSwahili returns a match exactly when the text has at least 10
\* characters after trimming and the classifier reports Swahili with
\* probability >= 0.90, and the confidence is then that probability; a text of
\* fewer than 10 characters gets isMatch = false and confidence 0 without a
\* call of the classifier; every non-match has confidence 0.
C22_ValidatorContract ==
  rq.kind = "validate" =>
    /\ rq.out.isSwahili <=>
         (Len(Trim(rq.text)) >= 10 /\ SwahiliProb(rq.answer) >= 90)
    /\ rq.out.isSwahili => rq.out.confidence = SwahiliProb(rq.answer)
    /\ ~rq.out.isSwahili => rq.out.confidence = 0
    /\ Len(rq.text) < 10 =>
         ~rq.out.isSwahili /\ rq.out.confidence = 0 /\ ~rq.detected

\* a text of 10 letters between blanks that the classifier reports as Swahili
\* with 0.90 exactly is a match of confidence 0.90
C22_Witness ==
  /\ rq.kind = "validate"
  /\ Len(rq.text) > 10
  /\ Len(Trim(rq.text)) = 10
  /\ SwahiliProb(rq.answer) = 90
  /\ rq.out = [isSwahili |-> TRUE, confidence |-> 90]

(***************************************************************************)
(* The user-facing filter paths: POST /api/posts (server.ts), the handle   *)
(* mode of the CLI (cli.ts) and the legacy discovery (discovery.ts).  They *)
(* read feeds of the network, classify each text with langdetect and keep  *)
(* what is Swahili with probability 0.98; none of them calls the crawler.  *)
(* The classifier is a black box: it may answer anything for a text that   *)
(* has letters, a text without any gives it no feature to report a         *)
(* language from.                                                          *)
(***************************************************************************)

\* server.ts:159, cli.ts:280, discovery.ts:112 and 229: prob >= 0.98
UserThreshold == 98

\* server.ts:114  limit = 50
PostsDefaultLimit == 50

\* cli.ts:222  while (fetchedCount < 200)
CliFetchCap == 200

\* "  " and the empty text
TxtBlank == <<" ", " ">>

\* langdetect.detect(text) on a text of the network
DetectAnswers(text) ==
  IF Trim(text) = <<>>
  THEN {[throws |-> TRUE, results |-> <<>>], [throws |-> FALSE, results |-> <<>>]}
  ELSE {[throws |-> TRUE, results |-> <<>>],
        [throws |-> FALSE, results |-> <<[lang |-> "en", prob |-> 99]>>],
        [throws |-> FALSE, results |-> <<[lang |-> "sw", prob |-> 97], [lang |-> "en", prob |-> 3]>>],
        [throws |-> FALSE, results |-> <<[lang |-> "sw", prob |-> 98]>>]}

\* the filter with the threshold of the crawler
UserMatchCrawl(answer) ==
  LET sw == SwahiliResults(answer.results)
  IN  sw # {} /\ answer.results[SetMin(sw)].prob >= SwahiliThreshold

\* swahiliResult && swahiliResult.prob >= 0.98, on the results of a call of
\* the classifier that returned
UserMatch(answer) ==
  LET sw == SwahiliResults(answer.results)
  IN  sw # {} /\ answer.results[SetMin(sw)].prob >= UserThreshold

\* the prob of the Swahili result
UserProb(answer) == answer.results[SetMin(SwahiliResults(answer.results))].prob

\* items of the feeds: a post with its record; the record of U6 has no text
ItemU1 == [uri |-> "at://u1", text |-> TxtLongY, createdAt |-> 5]

ItemU2 == [uri |-> "at://u2", text |-> TxtBlank, createdAt |-> 9]

ItemU3 == [uri |-> "at://u3", text |-> TxtEnglish, createdAt |-> 7]

ItemU4 == [uri |-> "at://u4", text |-> TxtLongX, createdAt |-> 8]

ItemU5 == [uri |-> "at://u5", text |-> <<>>, createdAt |-> 6]

ItemU6 == [uri |-> "at://u6", createdAt |-> 4]

\* agent.getAuthorFeed({actor, cursor}): the call throws, or answers with a
\* page of the feed and the cursor of the next page (0: none).  The feed of
\* account 1 has two pages, every other feed is empty.  The service may
\* also answer with a page that holds no item and still carries a cursor
\* (every item of the page was filtered out): the second page's cursor.
AuthorFeedAnswers(actor, cursor) ==
  {Failed} \cup
  {Ok(IF actor = HandleOf(1) /\ cursor = 0
        THEN [feed |-> <<ItemU1, ItemU2, ItemU3>>, cursor |-> 1]
      ELSE IF actor = HandleOf(1) /\ cursor = 1
        THEN [feed |-> <<ItemU6, ItemU4, ItemU5>>, cursor |-> 0]
      ELSE [feed |-> <<>>, cursor |-> 0])} \cup
  (IF actor = HandleOf(1) THEN {Ok([feed |-> <<>>, cursor |-> 1])} ELSE {})

\* the handle of the body: 0 when it is missing
PostsHandles == {0, HandleOf(1)}

\* the limit of the body; PostsDefaultLimit stands for a body without one
PostsLimits == {0, 1, 2, PostsDefaultLimit}

\* the request of POST /api/posts at a position of its handler
PostsRq(handle, limit, position, status) ==
  [kind |-> "posts", pc |-> position, handle |-> handle, limit |-> limit,
   posts |-> <<>>, cursor |-> 0, fetchedCount |-> 0, page |-> <<>>, pageLen |-> 0,
   next |-> 0, status |-> status, out |-> <<>>]

\* a request of POST /api/posts arrives: lines 113-138
PostPosts ==
  /\ pc = "idle"
  /\ rq.pc \in {"none", "responded"}
  /\ \E handle \in PostsHandles, limit \in PostsLimits,
        creds \in BOOLEAN, login \in LoginAnswers :
       rq' = IF handle = 0 THEN PostsRq(handle, limit, "responded", 400)
             ELSE IF ~Authenticated(creds, login)
               THEN PostsRq(handle, limit, "responded", AuthError(creds).status)
             ELSE PostsRq(handle, limit, "fetch", 0)
  /\ UNCHANGED serverFrame

\* while (fetchedCount < limit * 2) { response = await agent.getAuthorFeed(...)
\* : a rejection goes to the catch of the handler
PostsFetch ==
  /\ rq.kind = "posts"
  /\ rq.pc = "fetch"
  /\ IF rq.fetchedCount < rq.limit * 2
     THEN \E ans \in AuthorFeedAnswers(rq.handle, rq.cursor) :
            rq' = IF ~ans.ok THEN [rq EXCEPT !.pc = "responded", !.status = 500]
                  ELSE [rq EXCEPT !.pc = "page", !.page = ans.data.feed,
                                  !.pageLen = Len(ans.data.feed),
                                  !.next = ans.data.cursor]
     ELSE rq' = [rq EXCEPT !.pc = "respond"]
  /\ UNCHANGED serverFrame

\* one iteration of for (const post of response.data.feed): lines 147-170.
\* An exception of langdetect.detect leaves the loops for the catch at 186.
PostsCheck ==
  /\ rq.kind = "posts"
  /\ rq.pc = "page"
  /\ rq.page # <<>>
  /\ LET post == Head(rq.page)
     IN  IF "text" \notin DOMAIN post
         THEN rq' = [rq EXCEPT !.page = Tail(rq.page)]
         ELSE \E answer \in DetectAnswers(post.text) :
                rq' = IF answer.throws
                      THEN [rq EXCEPT !.pc = "responded", !.status = 500]
                      ELSE IF UserMatch(answer)
                      THEN [rq EXCEPT
                              !.posts = Append(rq.posts,
                                 [uri |-> post.uri, text |-> post.text,
                                  createdAt |-> post.createdAt,
                                  confidence |-> UserProb(answer)]),
                              !.page = Tail(rq.page),
                              !.pc = IF Len(rq.posts) + 1 >= rq.limit
                                     THEN "respond" ELSE "page"]
                      ELSE [rq EXCEPT !.page = Tail(rq.page)]
  /\ UNCHANGED serverFrame

\* after the page: lines 172-176
PostsEndPage ==
  /\ rq.kind = "posts"
  /\ rq.pc = "page"
  /\ rq.page = <<>>
  /\ rq' = IF Len(rq.posts) >= rq.limit \/ rq.next = 0
           THEN [rq EXCEPT !.pc = "respond"]
           ELSE [rq EXCEPT !.pc = "fetch", !.cursor = rq.next,
                           !.fetchedCount = rq.fetchedCount + rq.pageLen]
  /\ UNCHANGED serverFrame

\* a response that removes the cache file on its way out
PostsRespondClearing ==
  /\ rq.kind = "posts"
  /\ rq.pc = "respond"
  /\ rq' = [rq EXCEPT !.pc = "responded", !.status = 200,
                      !.out = SliceTo(rq.posts, rq.limit)]
  /\ disk' = NoFile
  /\ UNCHANGED <<now, calls, crawls, pc, opts, cache, posts, seenUris, seenTexts,
                 newProfilesDiscovered, ex, cr, hv, result, ws, other>>

\* res.json({mode: "posts", handle, posts: posts.slice(0, limit) ...
PostsRespond ==
  /\ rq.kind = "posts"
  /\ rq.pc = "respond"
  /\ rq' = [rq EXCEPT !.pc = "responded", !.status = 200,
                      !.out = SliceTo(rq.posts, rq.limit)]
  /\ UNCHANGED serverFrame

\* the request of the CLI in handle mode at a position of main()
CliRq(handle, position, status) ==
  [kind |-> "cli", pc |-> position, handle |-> handle, fetched |-> <<>>,
   fetchedCount |-> 0, cursor |-> 0, queue |-> <<>>, kept |-> <<>>,
   status |-> status, out |-> <<>>]

\* swahili <handle>: lines 171-201 of main(); without a handle, without
\* credentials or with a login that fails the process exits with code 1
CliStart ==
  /\ pc = "idle"
  /\ rq.pc \in {"none", "responded"}
  /\ \E handle \in PostsHandles, creds \in BOOLEAN, login \in LoginAnswers :
       rq' = IF handle = 0 \/ ~Authenticated(creds, login)
             THEN CliRq(handle, "responded", 1)
             ELSE CliRq(handle, "fetch", 0)
  /\ UNCHANGED serverFrame

\* the items of a page that carry a text and a createdAt
WithTextAndDate(feed) ==
  SelectSeq(feed, LAMBDA item : "text" \in DOMAIN item /\ "createdAt" \in DOMAIN item)

\* one iteration of while (fetchedCount < 200): lines 222-261
CliFetch ==
  /\ rq.kind = "cli"
  /\ rq.pc = "fetch"
  /\ IF rq.fetchedCount < CliFetchCap
     THEN \E ans \in AuthorFeedAnswers(rq.handle, rq.cursor) :
            rq' = IF ~ans.ok THEN [rq EXCEPT !.pc = "responded", !.status = 1]
                  ELSE IF ans.data.feed = <<>>
                    THEN [rq EXCEPT !.pc = "filter", !.queue = rq.fetched]
                  ELSE LET taken == SliceTo(WithTextAndDate(ans.data.feed),
                                            CliFetchCap - rq.fetchedCount)
                       IN  [rq EXCEPT
                              !.fetched = rq.fetched \o taken,
                              !.fetchedCount = rq.fetchedCount + Len(taken),
                              !.cursor = ans.data.cursor,
                              !.queue = IF ans.data.cursor = 0
                                        THEN rq.fetched \o taken ELSE <<>>,
                              !.pc = IF ans.data.cursor = 0 THEN "filter" ELSE "fetch"]
     ELSE rq' = [rq EXCEPT !.pc = "filter", !.queue = rq.fetched]
  /\ UNCHANGED serverFrame

\* the callback of posts.filter on one post: lines 267-285.  A post that is
\* kept is given the prob of its Swahili result, which the program does not
\* store.
CliFilter ==
  /\ rq.kind = "cli"
  /\ rq.pc = "filter"
  /\ rq.queue # <<>>
  /\ LET post == Head(rq.queue)
     IN  IF Trim(post.text) = <<>>
         THEN rq' = [rq EXCEPT !.queue = Tail(rq.queue)]
         ELSE \E answer \in DetectAnswers(post.text) :
                rq' = IF ~answer.throws /\ UserMatch(answer)
                      THEN [rq EXCEPT
                              !.kept = Append(rq.kept,
                                 [uri |-> post.uri, text |-> post.text,
                                  createdAt |-> post.createdAt,
                                  confidence |-> UserProb(answer)]),
                              !.queue = Tail(rq.queue)]
                      ELSE [rq EXCEPT !.queue = Tail(rq.queue)]
  /\ UNCHANGED serverFrame

\* printNormalResults(swahiliPosts, options.handle, options.json)
CliPrint ==
  /\ rq.kind = "cli"
  /\ rq.pc = "filter"
  /\ rq.queue = <<>>
  /\ rq' = [rq EXCEPT !.pc = "responded", !.out = rq.kept]
  /\ UNCHANGED serverFrame

(***************************************************************************)
(* The legacy discovery of discovery.ts: findPostsByTags, the feeds of the *)
(* handles of getRandomHandles, the removal of like texts, the sort and    *)
(* the cut to the limit.                                                   *)
(***************************************************************************)

\* discovery.ts:161  options.limit || 50
LegacyDefaultLimit == 50

\* discovery.ts:202  while (fetchedCount < 20 && ...)
LegacyFeedCap == 20

\* discovery.ts:23-35
POPULAR_SWAHILI_HASHTAGS ==
  <<"sw", "swahili", "habari", "tanzania", "kenya", "uganda", "rwanda", "burundi",
    "congo", "swahilinews", "kiswahili">>

\* discovery.ts:37 SWAHILI_HANDLES, followed by a handle of six random
\* characters, which getRandomHandles adds when more handles are asked for
LegacyHandles == <<HandleOf(1), HandleOf(2), HandleOf(3), HandleOf(4)>>

\* getRandomHandles(agent, limit)
getRandomHandles(limit) == SliceTo(LegacyHandles, limit)

\* posts of the hashtag searches: T1 is the post U1 of the feed of account 1,
\* T3 has a text of its own with the first 100 characters of U1's
ItemT1 == [uri |-> "at://u1", text |-> TxtLongY, createdAt |-> 5, author |-> 1]

ItemT2 == [uri |-> "at://t2", text |-> TxtKenya, createdAt |-> 3, author |-> 2]

ItemT3 == [uri |-> "at://t3", text |-> TxtLongX, createdAt |-> 6, author |-> 2]

ItemT4 == [uri |-> "at://t4", text |-> TxtBlank, createdAt |-> 9, author |-> 2]

\* agent.api.app.bsky.feed.searchPosts({q: "#" + tag, cursor}): the call
\* throws, or answers with a page and the cursor of the next one (0: none);
\* #tanzania and #kenya find posts
TagSearchAnswers(tag, cursor) ==
  {Failed} \cup
  {Ok(IF tag = "tanzania" /\ cursor = 0
        THEN [posts |-> <<ItemT2, ItemT4, ItemT1>>, cursor |-> 1]
      ELSE IF tag = "tanzania" /\ cursor = 1
        THEN [posts |-> <<ItemT1, ItemT3>>, cursor |-> 0]
      ELSE IF tag = "kenya" /\ cursor = 0
        THEN [posts |-> <<ItemT2, ItemT3>>, cursor |-> 0]
      ELSE [posts |-> <<>>, cursor |-> 0])}

\* the DiscoveryOptions of the callers: hasLimit tells whether limit is
\* given, hasTags whether tags is given
LegacyOptions ==
  [hasLimit : BOOLEAN, limit : {0, 1, 2}, sources : {1, 4},
   strategy : {"random", "trending", "mixed"}, hasTags : BOOLEAN,
   tags : {<<"tanzania">>}, deduplicateLike : BOOLEAN]

\* options.limit || 50
LegacyLimit(o) == IF o.hasLimit /\ o.limit # 0 THEN o.limit ELSE LegacyDefaultLimit

\* options.tags || POPULAR_SWAHILI_HASHTAGS
LegacyTags(o) == IF o.hasTags THEN o.tags ELSE POPULAR_SWAHILI_HASHTAGS

\* the call at the entry of discoverSwahiliPosts; the locals of
\* findPostsByTags are posts, seen, tags, tag and those of its loops
LegacyRq(o) ==
  [kind |-> "legacy", pc |-> "start", options |-> o, limit |-> LegacyLimit(o),
   posts |-> <<>>, seen |-> {}, tags |-> <<>>, tag |-> "",
   handles |-> <<>>, handle |-> 0,
   cursor |-> 0, fetchedCount |-> 0, page |-> <<>>, next |-> 0,
   allPosts |-> <<>>, seenUris |-> {}, out |-> <<>>]

\* discoverSwahiliPosts(agent, options) is called: lines 161-177
LegacyStart ==
  /\ pc = "idle"
  /\ rq.pc \in {"none", "responded"}
  /\ \E o \in LegacyOptions :
       /\ ~o.hasLimit => o.limit = 0
       /\ rq' = [LegacyRq(o) EXCEPT
                   !.pc = IF o.strategy \in {"trending", "mixed"}
                          THEN "tags" ELSE "handles",
                   !.tags = LegacyTags(o),
                   !.handles = getRandomHandles(o.sources)]
  /\ UNCHANGED serverFrame

\* for (const tag of tags) of findPostsByTags, and its return into the loop
\* of lines 180-185 and the test of line 189
LegacyNextTag ==
  /\ rq.kind = "legacy"
  /\ rq.pc = "tags"
  /\ rq' = IF rq.tags # <<>>
           THEN [rq EXCEPT !.pc = "search", !.tag = Head(rq.tags),
                           !.tags = Tail(rq.tags), !.cursor = 0, !.fetchedCount = 0]
           ELSE [rq EXCEPT
                   !.allPosts = rq.posts,
                   !.seenUris = {rq.posts[k].uri : k \in 1..Len(rq.posts)},
                   !.pc = IF rq.options.strategy = "mixed" /\ Len(rq.posts) < rq.limit
                          THEN "handles" ELSE "dedupe"]
  /\ UNCHANGED serverFrame

\* while (fetchedCount < limit && posts.length < limit) { searchPosts ... :
\* lines 81-94; a search that throws or finds nothing ends the tag
LegacySearch ==
  /\ rq.kind = "legacy"
  /\ rq.pc = "search"
  /\ IF rq.fetchedCount < rq.limit /\ Len(rq.posts) < rq.limit
     THEN \E ans \in TagSearchAnswers(rq.tag, rq.cursor) :
            rq' = IF ~ans.ok \/ ans.data.posts = <<>>
                  THEN [rq EXCEPT !.pc = "tags"]
                  ELSE [rq EXCEPT !.pc = "tagPage", !.page = ans.data.posts,
                                  !.next = ans.data.cursor]
     ELSE rq' = [rq EXCEPT !.pc = "tags"]
  /\ UNCHANGED serverFrame

\* the DiscoveredPost pushed for a post
LegacyPost(post, from, method, answer) ==
  [uri |-> post.uri, text |-> post.text, createdAt |-> post.createdAt,
   discoveredFrom |-> from, discoveryMethod |-> method,
   confidence |-> UserProb(answer)]

\* one iteration of for (const post of response.data.posts): lines 96-131
LegacyTagPost ==
  /\ rq.kind = "legacy"
  /\ rq.pc = "tagPage"
  /\ rq.page # <<>>
  /\ LET post == Head(rq.page)
     IN  IF post.uri \in rq.seen \/ Len(rq.posts) >= rq.limit \/ Trim(post.text) = <<>>
         THEN rq' = [rq EXCEPT !.page = Tail(rq.page)]
         ELSE \E answer \in DetectAnswers(post.text) :
                rq' = IF ~answer.throws /\ UserMatch(answer)
                      THEN [rq EXCEPT
                              !.posts = Append(rq.posts,
                                 LegacyPost(post, HandleOf(post.author),
                                            <<"tag", rq.tag>>, answer)),
                              !.seen = rq.seen \cup {post.uri},
                              !.fetchedCount = rq.fetchedCount + 1,
                              !.page = Tail(rq.page)]
                      ELSE [rq EXCEPT !.fetchedCount = rq.fetchedCount + 1,
                                      !.page = Tail(rq.page)]
  /\ UNCHANGED serverFrame

\* the end of a page of a search: lines 133-136
LegacyTagEndPage ==
  /\ rq.kind = "legacy"
  /\ rq.pc = "tagPage"
  /\ rq.page = <<>>
  /\ rq' = IF rq.next = 0 THEN [rq EXCEPT !.pc = "tags"]
           ELSE [rq EXCEPT !.pc = "search", !.cursor = rq.next]
  /\ UNCHANGED serverFrame

\* for (const handle of handles) { if (allPosts.length >= limit) break; ...
LegacyNextHandle ==
  /\ rq.kind = "legacy"
  /\ rq.pc = "handles"
  /\ rq' = IF rq.handles # <<>> /\ Len(rq.allPosts) < rq.limit
           THEN [rq EXCEPT !.pc = "feed", !.handle = Head(rq.handles),
                           !.handles = Tail(rq.handles), !.cursor = 0,
                           !.fetchedCount = 0]
           ELSE [rq EXCEPT !.pc = "dedupe"]
  /\ UNCHANGED serverFrame

\* while (fetchedCount < 20 && allPosts.length < limit) { getAuthorFeed ... :
\* lines 202-211; a feed that throws or is empty ends the handle
LegacyFeed ==
  /\ rq.kind = "legacy"
  /\ rq.pc = "feed"
  /\ IF rq.fetchedCount < LegacyFeedCap /\ Len(rq.allPosts) < rq.limit
     THEN \E ans \in AuthorFeedAnswers(rq.handle, rq.cursor) :
            rq' = IF ~ans.ok \/ ans.data.feed = <<>>
                  THEN [rq EXCEPT !.pc = "handles"]
                  ELSE [rq EXCEPT !.pc = "feedPage", !.page = ans.data.feed,
                                  !.next = ans.data.cursor]
     ELSE rq' = [rq EXCEPT !.pc = "handles"]
  /\ UNCHANGED serverFrame

\* if (!seenUris.has(post.uri)) on the way into allPosts, without the test
DuplicateNever(uri, seen) == FALSE

\* seenUris.has(item.post.uri)
DuplicateLegacy(uri, seen) == uri \in seen

\* one iteration of for (const item of response.data.feed): lines 213-247
LegacyFeedItem ==
  /\ rq.kind = "legacy"
  /\ rq.pc = "feedPage"
  /\ rq.page # <<>>
  /\ LET post == Head(rq.page)
     IN  IF \/ DuplicateLegacy(post.uri, rq.seenUris)
            \/ "text" \notin DOMAIN post
            \/ Trim(post.text) = <<>>
         THEN rq' = [rq EXCEPT !.page = Tail(rq.page)]
         ELSE \E answer \in DetectAnswers(post.text) :
                rq' = IF ~answer.throws /\ UserMatch(answer)
                      THEN [rq EXCEPT
                              !.allPosts = Append(rq.allPosts,
                                 LegacyPost(post, rq.handle, <<"random_handle">>, answer)),
                              !.seenUris = rq.seenUris \cup {post.uri},
                              !.fetchedCount = rq.fetchedCount + 1,
                              !.page = Tail(rq.page)]
                      ELSE [rq EXCEPT !.fetchedCount = rq.fetchedCount + 1,
                                      !.page = Tail(rq.page)]
  /\ UNCHANGED serverFrame

\* the end of a page of a feed: lines 249-252
LegacyFeedEndPage ==
  /\ rq.kind = "legacy"
  /\ rq.pc = "feedPage"
  /\ rq.page = <<>>
  /\ rq' = IF rq.next = 0 THEN [rq EXCEPT !.pc = "handles"]
           ELSE [rq EXCEPT !.pc = "feed", !.cursor = rq.next]
  /\ UNCHANGED serverFrame

\* post.record.text.slice(0, 100)
LegacyTextHash(text) == SliceTo(text, 100)

\* lines 269-278: the posts whose first 100 characters no earlier post has
RECURSIVE UniqueByText(_)
UniqueByText(list) ==
  IF list = <<>> THEN <<>>
  ELSE LET uniquePosts == UniqueByText(SubSeq(list, 1, Len(list) - 1))
           post == list[Len(list)]
       IN  IF \E k \in 1..Len(uniquePosts) :
                LegacyTextHash(uniquePosts[k].text) = LegacyTextHash(post.text)
           THEN uniquePosts ELSE Append(uniquePosts, post)

\* a stable sort that puts the older post first
RECURSIVE SortOldestFirst(_)
SortOldestFirst(list) ==
  IF list = <<>> THEN <<>>
  ELSE LET sorted == SortOldestFirst(SubSeq(list, 1, Len(list) - 1))
           post == list[Len(list)]
           before == Cardinality({k \in 1..Len(sorted) :
                                    sorted[k].createdAt <= post.createdAt})
       IN  SubSeq(sorted, 1, before) \o <<post>>
             \o SubSeq(sorted, before + 1, Len(sorted))

\* a stable sort that puts the newer post first: Array.prototype.sort with
\* the comparator of line 286
RECURSIVE SortNewestFirst(_)
SortNewestFirst(list) ==
  IF list = <<>> THEN <<>>
  ELSE LET sorted == SortNewestFirst(SubSeq(list, 1, Len(list) - 1))
           post == list[Len(list)]
           before == Cardinality({k \in 1..Len(sorted) :
                                    sorted[k].createdAt >= post.createdAt})
       IN  SubSeq(sorted, 1, before) \o <<post>>
             \o SubSeq(sorted, before + 1, Len(sorted))

\* lines 268-290: deduplicate when asked to, sort, cut to the limit, return
LegacyFinish ==
  /\ rq.kind = "legacy"
  /\ rq.pc = "dedupe"
  /\ LET unique == IF rq.options.deduplicateLike
                   THEN UniqueByText(rq.allPosts) ELSE rq.allPosts
     IN  rq' = [rq EXCEPT !.pc = "responded", !.allPosts = SortNewestFirst(unique),
                          !.out = SliceTo(SortNewestFirst(unique), rq.limit)]
  /\ UNCHANGED serverFrame

(***************************************************************************)
(* The specification of the user-facing paths: requests of POST /api/posts,*)
(* runs of the CLI in handle mode and calls of the legacy discovery, one   *)
(* after the other.                                                        *)
(***************************************************************************)

NextFront ==
  \/ PostPosts \/ PostsFetch \/ PostsCheck \/ PostsEndPage \/ PostsRespond
  \/ CliStart \/ CliFetch \/ CliFilter \/ CliPrint
  \/ LegacyStart \/ LegacyNextTag \/ LegacySearch \/ LegacyTagPost
  \/ LegacyTagEndPage \/ LegacyNextHandle \/ LegacyFeed \/ LegacyFeedItem
  \/ LegacyFeedEndPage \/ LegacyFinish

SpecFront == Init /\ [][NextFront]_vars

(***************************************************************************)
(* C23: a failure of the classifier on one text                            *)
(***************************************************************************)

\* the texts a request still has to classify at its position
Pending ==
  IF rq.kind = "posts" /\ rq.pc = "page" THEN rq.page
  ELSE IF rq.kind = "cli" /\ rq.pc = "filter" THEN rq.queue
  ELSE IF rq.kind = "legacy" /\ rq.pc \in {"tagPage", "feedPage"} THEN rq.page
  ELSE <<>>

\* C23: a failure of the language classifier on one text counts as "not a
\* match" for that text only: the step that classifies the first of the
\* pending texts of POST /api/posts, of the CLI in handle mode or of the
\* legacy discovery never ends the operation, whatever the classifier does
\* (an exception included); it leaves the operation at work on the texts
\* that remain.
C23_ClassifierFailureSkipsText ==
  [][Pending # <<>> => rq'.kind = rq.kind /\ rq'.pc # "responded"]_vars

(***************************************************************************)
(* C24: the migration of loadCache                                         *)
(***************************************************************************)

\* C24: loading a persisted blob that has no version gives a cache with
\* version set and with seedProfiles and crawlHistory defined, an empty list
\* where the blob had none; the profiles, totalDiscoveries and every other
\* member the blob has, the lists it has already included, are kept as they
\* are.  A blob that has a version is returned as stored, and no load gives
\* a cache without version.
C24_MigrationOneWay ==
  (pc = "loaded" /\ Readable(disk)) =>
    LET blob == Blob(disk)
    IN  /\ "version" \in DOMAIN cache
        /\ "version" \in DOMAIN blob => cache = blob
        /\ "version" \notin DOMAIN blob =>
             /\ DOMAIN cache = DOMAIN blob \cup {"version", "seedProfiles", "crawlHistory"}
             /\ \A key \in DOMAIN blob : cache[key] = blob[key]
             /\ \A key \in {"seedProfiles", "crawlHistory"} \ DOMAIN blob :
                  cache[key] = <<>>

\* the blob without version that has seedProfiles is loaded: its seeds and
\* its profile are kept, crawlHistory is the empty list
C24_Witness ==
  /\ pc = "loaded"
  /\ disk = File(SeededLegacyCache)
  /\ cache.version = "2.0"
  /\ cache.seedProfiles = <<SeedHandles[2]>>
  /\ cache.crawlHistory = <<>>
  /\ cache.profiles = SeededLegacyCache.profiles
  /\ cache.totalDiscoveries = 1

(***************************************************************************)
(* The cache inspection: getCacheStats() on caches whose profiles carry    *)
(* tags, as the crawl and the backfill store them                          *)
(***************************************************************************)

\* crawler.ts:715 and 719  slice(0, 10)
TopCount == 10

\* the tags #ta ... #tk
StatsTags ==
  [k \in 1..11 |-> <<"t", <<"a","b","c","d","e","f","g","h","i","j","k">>[k]>>]

TagHabari == <<"h","a","b","a","r","i">>

\* the profiles the caches of this specification are made of.  Profile 1 was
\* found by a hashtag search in the post TxtKenya (crawler.ts:346-355), the
\* others carry the tags of several posts.
StatsProfile(d) ==
  CachedProfile(d, d, 1, 1, <<"hashtag", TagKenya>>,
    CASE d = 1 -> extractHashtags(TxtKenya)
      [] d = 2 -> <<TagKenya, TagHabari>>
      [] d = 3 -> SubSeq(StatsTags, 1, 10)
      [] d = 4 -> <<StatsTags[1], StatsTags[2], TagHabari>>
      [] d = 5 -> <<>>
      [] d = 6 -> <<StatsTags[1], TagHabari>>
      [] OTHER -> <<StatsTags[11]>>)

\* the dids of those profiles
StatsDids == 1..7

\* a cache file with the profiles of a set of dids
StatsFile(S) ==
  File([version |-> "2.0", lastUpdated |-> 1, totalDiscoveries |-> Cardinality(S),
        profiles |-> [d \in S |-> StatsProfile(d)],
        seedProfiles |-> SeedHandles, crawlHistory |-> <<>>])

\* for (const profile of Object.values(cache.profiles))
\*   for (const tag of profile.tags): the tags in the order they are met
RECURSIVE TagsMet(_)
TagsMet(profiles) ==
  IF profiles = <<>> THEN <<>>
  ELSE TagsMet(SubSeq(profiles, 1, Len(profiles) - 1)) \o profiles[Len(profiles)].tags

\* tagCounts[tag] after the loops: one for every time the tag was met
TagCount(met, tag) == Cardinality({k \in 1..Len(met) : met[k] = tag})

\* Object.entries(tagCounts): one entry per tag, in the order of insertion
TagEntries(met) ==
  LET tags == Dedupe(met)
  IN  [k \in 1..Len(tags) |-> [tag |-> tags[k], count |-> TagCount(met, tags[k])]]

\* .sort((a, b) => b[1] - a[1]): a stable sort, larger counts first
RECURSIVE SortByCount(_)
SortByCount(entries) ==
  IF entries = <<>> THEN <<>>
  ELSE LET sorted == SortByCount(SubSeq(entries, 1, Len(entries) - 1))
           entry == entries[Len(entries)]
           before == Cardinality({k \in 1..Len(sorted) : sorted[k].count >= entry.count})
       IN  SubSeq(sorted, 1, before) \o <<entry>>
             \o SubSeq(sorted, before + 1, Len(sorted))

\* .sort(...) by discoveredAt, newest first
RECURSIVE SortByDiscovery(_)
SortByDiscovery(profiles) ==
  IF profiles = <<>> THEN <<>>
  ELSE LET sorted == SortByDiscovery(SubSeq(profiles, 1, Len(profiles) - 1))
           profile == profiles[Len(profiles)]
           before == Cardinality({k \in 1..Len(sorted) :
                                    sorted[k].discoveredAt >= profile.discoveredAt})
       IN  SubSeq(sorted, 1, before) \o <<profile>>
             \o SubSeq(sorted, before + 1, Len(sorted))

\* getCacheStats() once its loadCache() has returned c
getCacheStats(c) ==
      [totalProfiles |-> Cardinality(Keys(c)),
       totalDiscoveries |-> c.totalDiscoveries,
       lastUpdated |-> c.lastUpdated,
       topTags |-> SliceTo(SortByCount(TagEntries(TagsMet(Values(c)))), TopCount),
       recentProfiles |-> SliceTo(SortByDiscovery(Values(c)), TopCount)]

InitStats ==
  /\ disk \in {NoFile, Truncated} \cup {StatsFile(S) : S \in SUBSET StatsDids}
  /\ now = 10
  /\ calls = 0
  /\ crawls = 0
  /\ pc = "store"
  /\ opts = NoOpts
  /\ cache = DefaultCache(10)
  /\ posts = <<>>
  /\ seenUris = {}
  /\ seenTexts = {}
  /\ newProfilesDiscovered = 0
  /\ ex = NoEx
  /\ cr = NoCr
  /\ hv = NoHv
  /\ result = NoResult
  /\ ws = NoWs
  /\ other = NoCall
  /\ rq = NoRq

\* a caller asks for the statistics
GetCacheStats ==
  /\ pc \in StorePcs
  /\ \E c \in {loadCache(disk, now)} :
       rq' = [kind |-> "stats", pc |-> "returned", cache |-> c, out |-> getCacheStats(c)]
  /\ UNCHANGED serverFrame

NextStats == GetCacheStats \/ StoreClear

SpecStats == InitStats /\ [][NextStats]_vars

\* the profiles of the cache that getCacheStats loaded
StatsLoaded == rq.cache.profiles

\* the cached profiles that carry a tag
Carriers(tag) ==
  {d \in DOMAIN StatsLoaded :
     \E k \in 1..Len(StatsLoaded[d].tags) : StatsLoaded[d].tags[k] = tag}

\* C25: stats() returns at most 10 topTags in non-increasing order of their
\* counts, the count of a tag is the number of cached profiles that carry
\* the tag, and no tag that is left out is carried by more profiles than a
\* tag that is returned.
C25_TopTags ==
  rq.kind = "stats" =>
    LET top == rq.out.topTags
        returned == {top[k].tag : k \in 1..Len(top)}
        carried == UNION {{StatsLoaded[d].tags[k] : k \in 1..Len(StatsLoaded[d].tags)} :
                            d \in DOMAIN StatsLoaded}
    IN  /\ Len(top) <= 10
        /\ \A k \in 1..Len(top) - 1 : top[k].count >= top[k + 1].count
        /\ \A k \in 1..Len(top) : top[k].count = Cardinality(Carriers(top[k].tag))
        /\ \A tag \in carried \ returned : \A k \in 1..Len(top) :
             Cardinality(Carriers(tag)) <= top[k].count

(***************************************************************************)
(* C26: POST /api/posts and the cache                                      *)
(***************************************************************************)

\* C26: POST /api/posts bypasses the crawler and the cache: no step of a
\* request, from its arrival to its response, loads, changes, saves or
\* clears the discovery cache (the file and the cache of the crawler stay as
\* they are, no discovery call or crawl is started), and the response holds
\* at most limit posts.
C26_PostsBypassCache ==
  [][rq'.kind = "posts" =>
       /\ UNCHANGED <<disk, cache, calls, crawls, pc, newProfilesDiscovered, result>>
       /\ Len(rq'.out) <= rq'.limit]_vars

\* a request with limit 2 is answered with two posts while the cache file of
\* the start is in place
C26_Witness ==
  /\ rq.kind = "posts"
  /\ rq.pc = "responded"
  /\ rq.status = 200
  /\ rq.limit = 2
  /\ Len(rq.out) = 2
  /\ disk.exists
  /\ calls = 0

(***************************************************************************)
(* C27: what the user-facing paths return                                  *)
(***************************************************************************)

\* the posts a request has accepted so far, and those it has returned
Accepted ==
  IF rq.kind = "posts" THEN rq.posts \o rq.out
  ELSE IF rq.kind = "cli" THEN rq.kept \o rq.out
  ELSE IF rq.kind = "legacy" THEN rq.posts \o rq.allPosts \o rq.out
  ELSE <<>>

C28_ExploitationNoDiscovery ==
  (calls >= 1 /\ ex.cacheSize >= 50 /\ ~ex.shouldFullExplore) =>
    /\ newProfilesDiscovered = 0
    /\ Cardinality(Keys(cache)) = ex.cacheSize
    /\ result.returned => result.cacheStats.newProfilesDiscovered = 0

(***************************************************************************)
(* C29, C30: what the legacy discovery returns                             *)
(***************************************************************************)

\* the URIs of a list of posts
UrisOf(list) == {list[k].uri : k \in 1..Len(list)}

\* C29: the legacy discoverSwahiliPosts never returns two posts with the
\* same URI, whichever hashtag searches and handle feeds gave them, and with
\* deduplicateLike (the default) never two posts whose texts have the same
\* first 100 characters.
C29_LegacyNoDuplicates ==
  (rq.kind = "legacy" /\ rq.pc = "responded") =>
    /\ \A j, k \in 1..Len(rq.out) : rq.out[j].uri = rq.out[k].uri => j = k
    /\ rq.options.deduplicateLike =>
         \A j, k \in 1..Len(rq.out) :
           Prefix100(rq.out[j].text) = Prefix100(rq.out[k].text) => j = k

\* a mixed call found the post u1 by a hashtag and met it again in the feed
\* of its author, and found t3, whose text starts as that of u1: it returns
\* u1 once, without t3, next to another post
C29_Witness ==
  /\ rq.kind = "legacy"
  /\ rq.pc = "responded"
  /\ rq.options.strategy = "mixed"
  /\ rq.options.deduplicateLike
  /\ {"at://u1", "at://t3"} \subseteq UrisOf(rq.posts)
  /\ rq.handles = <<>>
  /\ "at://u1" \in UrisOf(rq.out)
  /\ "at://t3" \notin UrisOf(rq.out)
  /\ Len(rq.out) >= 2

\* C30: the legacy discoverSwahiliPosts returns its posts sorted by creation
\* time, newest first, and cut to at most limit entries (limit being the
\* option, or 50 when the option is absent or 0): the posts returned are the
\* limit newest of the deduplicated posts the call collected.
C30_LegacyNewestFirst ==
  (rq.kind = "legacy" /\ rq.pc = "responded") =>
    /\ Len(rq.out) <= rq.limit
    /\ Len(rq.out) = IF Len(rq.allPosts) < rq.limit THEN Len(rq.allPosts) ELSE rq.limit
    /\ \A k \in 1..Len(rq.out) - 1 : rq.out[k].createdAt >= rq.out[k + 1].createdAt
    /\ \A k \in 1..Len(rq.out) :
         /\ \E j \in 1..Len(rq.allPosts) : rq.allPosts[j] = rq.out[k]
         /\ \A j \in 1..Len(rq.allPosts) :
              rq.allPosts[j].uri \notin UrisOf(rq.out) =>
                rq.allPosts[j].createdAt <= rq.out[k].createdAt

\* a call with limit 1 collected u1 and then the newer u3 from one page of a
\* feed: it returns u3 alone
C30_Witness ==
  /\ rq.kind = "legacy"
  /\ rq.pc = "responded"
  /\ rq.options.hasLimit
  /\ rq.limit = 1
  /\ UrisOf(rq.allPosts) = {"at://u1", "at://u3"}
  /\ Len(rq.out) = 1
  /\ rq.out[1].uri = "at://u3"

(***************************************************************************)
(* The engagement scorer on its own: calculateEngagement on posts with and *)
(* without each of their interaction counts                                *)
(***************************************************************************)

\* the members of a post that calculateEngagement reads
ScoreFields == {"likeCount", "repostCount", "replyCount"}

\* the values of a count
ScoreCounts == {0, 1, 2, 10}

\* the posts handed to the scorer: each count is absent or one of the values
ScorePosts == UNION {[F -> ScoreCounts] : F \in SUBSET ScoreFields}

\* a call of calculateEngagement(post); after is the post once the call has
\* returned (the function reads three members and assigns none)
ScorePost ==
  /\ \E post \in ScorePosts :
       rq' = [kind |-> "score", pc |-> "returned", post |-> post, after |-> post,
              out |-> calculateEngagement(post)]
  /\ UNCHANGED serverFrame

SpecScore == Init /\ [][ScorePost]_vars

\* C31: the engagement score of a post is likes + 2 * reposts + 3 * replies,
\* a missing count taken as 0 (10 likes, 2 reposts and 1 reply give 17), and
\* computing it changes neither the post nor the cache.
C31_EngagementScore ==
  [][rq'.kind = "score" =>
       LET post == rq'.post
           likes == IF "likeCount" \in DOMAIN post THEN post.likeCount ELSE 0
           reposts == IF "repostCount" \in DOMAIN post THEN post.repostCount ELSE 0
           replies == IF "replyCount" \in DOMAIN post THEN post.replyCount ELSE 0
       IN  /\ rq'.out = likes + 2 * reposts + 3 * replies
           /\ (likes = 10 /\ reposts = 2 /\ replies = 1) => rq'.out = 17
           /\ rq'.after = post
           /\ UNCHANGED <<disk, cache>>]_vars

\* the post with 10 likes, 2 reposts and 1 reply was scored 17
C31_Witness ==
  /\ rq.kind = "score"
  /\ rq.post = [likeCount |-> 10, repostCount |-> 2, replyCount |-> 1]
  /\ rq.out = 17

(***************************************************************************)
(* The hashtag extractor on its own: extractHashtags on short texts made   *)
(* of "#", a capital, a small letter and the blank                         *)
(***************************************************************************)

\* the longest text handed to the extractor
MaxTagText == 4

\* the characters of those texts
TagAlphabet == {"#", "K", "k", " "}

\* the texts handed to the extractor
TagTexts == UNION {[1..n -> TagAlphabet] : n \in 0..MaxTagText}

\* a call of extractHashtags(text)
ExtractTags ==
  /\ \E text \in TagTexts :
       rq' = [kind |-> "tags", pc |-> "returned", text |-> text,
              out |-> extractHashtags(text)]
  /\ UNCHANGED serverFrame

SpecTags == Init /\ [][ExtractTags]_vars

\* C32: the hashtag extractor returns the unique normalized tags of a text:
\* every tag is in lower case and without its "#", and no tag is in the
\* result twice, even when the text repeats a hashtag.
C32_TagsUnique ==
  rq.kind = "tags" =>
    /\ \A j \in 1..Len(rq.out) : \A m \in 1..Len(rq.out[j]) :
         rq.out[j][m] \notin {"#", "K", "H"}
    /\ \A j, k \in 1..Len(rq.out) : rq.out[j] = rq.out[k] => j = k

(***************************************************************************)
(* C33: the crawl history                                                  *)
(***************************************************************************)

\* the starting handles of the crawls that have returned, in crawl order
CrawledHandles ==
  [k \in 1..(IF pc = "direct" THEN crawls ELSE crawls - 1) |-> DirectHandle(k)]

\* the length of a log that took n pushes, each followed by the cut to 25
\* when the length exceeds 50
LogLength(n) == IF n <= 50 THEN n ELSE 25 + ((n - 51) % 26)

CandidateDids(list) == {list[k].did : k \in 1..Len(list)}

\* C34: within one crawl every account is examined at most once, by the
\* first channel that meets it, and never when it is in the cache already:
\* a step of the crawl examines at most one account, one that no earlier
\* step examined and that is not cached, and only the account a step
\* examines can become a candidate in it.  So the candidates have pairwise
\* distinct identities, none of them cached, and an account that failed in
\* its first channel or first post is not returned later in the crawl.
C34_ExaminedOnce ==
  /\ [](/\ pc \in CrawlPcs => Keys(cache) \subseteq cr.checked
        /\ \A j, k \in 1..Len(cr.newProfiles) :
             cr.newProfiles[j].did = cr.newProfiles[k].did => j = k
        /\ CandidateDids(cr.newProfiles) \cap Keys(cache) = {}
        /\ CandidateDids(cr.newProfiles) \subseteq cr.checked)
  /\ [][(pc \in CrawlPcs) =>
          /\ cr.checked \subseteq cr'.checked
          /\ Cardinality(cr'.checked \ cr.checked) <= 1
          /\ (cr'.checked \ cr.checked) \cap Keys(cache) = {}
          /\ (\A k \in (Len(cr.newProfiles) + 1)..Len(cr'.newProfiles) :
                cr'.newProfiles[k].did \in (cr'.checked \ cr.checked))
          /\ Len(cr'.newProfiles) >= Len(cr.newProfiles)]_vars

\* the hashtag channel meets a Swahili post of account 61, which the
\* audience channel examined without success: the cap is not reached, and
\* the account is no candidate
C34_Witness ==
  /\ pc = "hashtagPosts"
  /\ Head(cr.queue).author = 61
  /\ isSwahili(Head(cr.queue).text).isSwahili
  /\ 61 \in cr.checked
  /\ 61 \notin CandidateDids(cr.newProfiles)
  /\ Len(cr.newProfiles) < cr.maxProfiles

\* -------------------------------------------------------------------------
\* Harvest statistics (crawler.ts 529-597)

\* the positions of the loop over selectedProfiles and of its loop over a feed
HarvestPcs == {"harvest", "harvestPosts"}

\* C35: during the harvest each accepted post adds exactly one to the
\* swahiliPostCount of the profile being harvested and sets its lastSeen to
\* the current time, leaving its other fields, every other cached profile
\* and the set of cached identities as they were; a step of the harvest
\* that accepts no post (a skipped post, a failed or empty feed, the limit
\* test) leaves every cached profile unchanged.
C35_HarvestCounts ==
  [][(pc \in HarvestPcs) =>
       IF posts' # posts
       THEN /\ Len(posts') = Len(posts) + 1
            /\ hv.selectedProfiles[hv.k].did \in DOMAIN cache.profiles
            /\ cache'.profiles =
                 [cache.profiles EXCEPT
                    ![hv.selectedProfiles[hv.k].did] =
                       [@ EXCEPT !.lastSeen = now,
                                 !.swahiliPostCount = @ + 1]]
       ELSE cache'.profiles = cache.profiles]_vars

\* the harvest has accepted two posts from the feed of a profile cached
\* before the call, whose count went from 1 to 3 and whose lastSeen is the current time,
\* while another selected profile, none of whose posts was accepted, is as
\* it was loaded
C35_Witness ==
  /\ pc \in HarvestPcs
  /\ \E d, e \in DOMAIN cache.profiles :
       /\ cache.profiles[d].discoveredAt < now
       /\ cache.profiles[d].swahiliPostCount = 3
       /\ cache.profiles[d].lastSeen = now
       /\ Len(posts) = 2
       /\ e # d
       /\ \E k \in 1..Len(hv.selectedProfiles) :
            k < hv.k /\ hv.selectedProfiles[k].did = e
       /\ cache.profiles[e].swahiliPostCount = 1
       /\ cache.profiles[e].lastSeen < now

\* -------------------------------------------------------------------------
\* Shortfall backfill (crawler.ts 599-668)

\* the positions of the backfill's loops over hashtags and over found posts
BackfillPcs == {"backfillTags", "backfillPosts"}

\* C36: the backfill searches only when fewer than limit posts were accepted
\* by the harvest, over at most 3 hashtags, each searched at most once; for
\* a post it accepts it inserts the author, if not cached, as a profile
\* with swahiliPostCount 1 and discoveredFrom hashtag:<tag>, adding one to
\* totalDiscoveries and to newProfilesDiscovered; the profiles already
\* cached stay as they are in every step of the backfill, and a step that
\* inserts nothing leaves the cache as it is.
C36_Backfill ==
  /\ [](pc \in BackfillPcs => Len(hv.tagsToSearch) + (IF hv.tag = <<>> THEN 0 ELSE 1)
                                <= TagsPerSearch)
  /\ [][/\ (pc = "backfill" /\ pc' \in BackfillPcs) =>
            Len(posts) < opts.limit /\ Len(hv'.tagsToSearch) <= TagsPerSearch
        /\ (pc = "backfillTags" /\ pc' \in BackfillPcs) =>
            /\ Len(posts) < opts.limit
            /\ hv'.tagsToSearch = Tail(hv.tagsToSearch)
        /\ (pc = "backfillPosts") => hv'.tagsToSearch = hv.tagsToSearch
        /\ (pc \in {"backfill"} \cup BackfillPcs) =>
            IF pc = "backfillPosts" /\ posts' # posts
                 /\ Head(hv.queue).author \notin DOMAIN cache.profiles
            THEN /\ DOMAIN cache'.profiles =
                      DOMAIN cache.profiles \cup {Head(hv.queue).author}
                 /\ cache'.profiles[Head(hv.queue).author].did = Head(hv.queue).author
                 /\ cache'.profiles[Head(hv.queue).author].swahiliPostCount = 1
                 /\ cache'.profiles[Head(hv.queue).author].discoveredFrom
                      = <<"hashtag", hv.tag>>
                 /\ cache'.totalDiscoveries = cache.totalDiscoveries + 1
                 /\ newProfilesDiscovered' = newProfilesDiscovered + 1
                 /\ (\A d \in DOMAIN cache.profiles :
                       cache'.profiles[d] = cache.profiles[d])
            ELSE cache' = cache /\ newProfilesDiscovered' = newProfilesDiscovered]_vars

\* the backfill has accepted a post of an author who was not cached and
\* has inserted the author: the profile counts one post, is marked with the
\* hashtag searched, and is the one discovery of the call, beside the
\* profiles that were loaded
C36_Witness ==
  /\ pc \in BackfillPcs
  /\ newProfilesDiscovered = 1
  /\ cache.totalDiscoveries = Cardinality(DOMAIN cache.profiles)
  /\ \E k \in 1..Len(posts) :
       /\ posts[k].discoveryMethod = <<"hashtag", hv.tag>>
       /\ posts[k].author.did \in DOMAIN cache.profiles
       /\ cache.profiles[posts[k].author.did].discoveredAt = now
       /\ cache.profiles[posts[k].author.did].swahiliPostCount = 1
       /\ cache.profiles[posts[k].author.did].discoveredFrom = <<"hashtag", hv.tag>>
  /\ \E d \in DOMAIN cache.profiles : cache.profiles[d].discoveredAt < now

\* -------------------------------------------------------------------------
\* Profile tags (crawler.ts 586-590, 208-233)

\* the hashtags a cached profile holds
TagsOf(c, did) == Range(c.profiles[did].tags)

\* C37: the tags of a cached profile accumulate: when the harvest accepts a
\* post of the profile it is reading, the hashtags of that post are among
\* the profile's tags afterwards, and no step of a discovery call removes a
\* tag from a cached profile.
C37_TagsAccumulate ==
  [][/\ (pc \in HarvestPcs /\ posts' # posts
           /\ Head(hv.queue).author = hv.selectedProfiles[hv.k].did) =>
          Range(extractHashtags(Head(hv.queue).text))
            \subseteq TagsOf(cache', hv.selectedProfiles[hv.k].did)
     /\ (pc # "idle") =>
          \A d \in DOMAIN cache.profiles :
            d \in DOMAIN cache'.profiles /\ TagsOf(cache, d) \subseteq TagsOf(cache', d)]_vars

(***************************************************************************)
(* POST /api/cache/clear and GET /api/cache beside a discovery call.  The  *)
(* two handlers are synchronous: the event loop runs each of them whole,   *)
(* between two steps of a discovery call that awaits the network or a      *)
(* timer, or when no call runs.  rq holds the reset request: whether its   *)
(* unlink removed the file, the identities that were persisted or held by  *)
(* the running call when it ran, and what a later statistics request       *)
(* loaded.                                                                 *)
(***************************************************************************)

\* the discovery call is not running, or awaits a feed, a search or a timer
AwaitPoint == pc \in {"idle", "harvest", "backfillTags"}

\* the identities persisted in the file d or held by the running call
KnownProfiles(d) ==
  DOMAIN loadCache(d, now).profiles
    \cup (IF pc = "idle" THEN {} ELSE DOMAIN cache.profiles)

\* app.post("/api/cache/clear"): clearCache() and the 200 response, which
\* is sent whether or not the unlink threw (clearCache catches the error)
ClearRequest ==
  /\ AwaitPoint
  /\ rq = NoRq
  /\ disk' \in clearCache(disk)
  /\ rq' = [kind |-> "clear", pc |-> "responded", status |-> 200,
            removed |-> ~disk'.exists, before |-> KnownProfiles(disk),
            loaded |-> {}]
  /\ UNCHANGED <<now, calls, crawls, pc, opts, cache, posts, seenUris, seenTexts,
                 newProfilesDiscovered, ex, cr, hv, result, ws, other>>

\* app.get("/api/cache") after the reset: getCacheStats() loads the cache
StatsRequest ==
  /\ AwaitPoint
  /\ rq.kind = "clear"
  /\ rq.pc = "responded"
  /\ rq' = [rq EXCEPT !.pc = "stats", !.loaded = DOMAIN loadCache(disk, now).profiles]
  /\ UNCHANGED serverFrame

NextClear ==
  \/ StartExploit
  \/ Select \/ HarvestProfile \/ HarvestPost
  \/ Backfill \/ BackfillSearch \/ BackfillPost \/ Finish
  \/ ClearRequest \/ StatsRequest

SpecClear == InitExploit /\ [][NextClear]_vars

\* C38: once a reset request has completed and removed the file, no later
\* load of the cache (that of a statistics request) returns a profile that
\* was persisted, or held by a discovery call in flight, when the reset ran.
C38_ClearIrreversible ==
  (rq.kind = "clear" /\ rq.pc = "stats" /\ rq.removed) => rq.loaded \cap rq.before = {}

(***************************************************************************)
(* Progress of POST /api/posts.  The handler is one async function, which  *)
(* the event loop resumes whenever the promise it awaits settles; what the *)
(* network answers is not the program's to choose.                         *)
(***************************************************************************)

NextPosts ==
  PostPosts \/ PostsFetch \/ PostsCheck \/ PostsEndPage \/ PostsRespond

\* the steps of a request that has not been answered
RunPosts == rq.kind = "posts" /\ rq.pc # "responded" /\ NextPosts

SpecPostsLive == Init /\ [][NextPosts]_vars /\ WF_vars(RunPosts)

\* C39: a request of POST /api/posts that has entered its paging loop is
\* answered in the end, whatever pages the network returns, pages without
\* items that carry a cursor included.
C39_PostsTerminates ==
  (rq.kind = "posts" /\ rq.pc = "fetch") ~> (rq.kind = "posts" /\ rq.pc = "responded")

=============================================================================





